---- MODULE Spec2Model ----
(***************************************************************************)
(* A model of the coname key server core: the Raft storage and the Raft    *)
(* log replicator (server/replication/raftlog), the preserved-encoding     *)
(* wrapper of SignedEntryUpdate (proto) and the ECVRF over an Edwards      *)
(* curve (vrf/vrf_ed25519).                                                *)
(***************************************************************************)
EXTENDS Integers, Sequences, FiniteSets, TLC

(***************************************************************************)
(* Bounds of the model.                                                    *)
(***************************************************************************)
MaxNodes == 3
MaxProposals == 9
MaxTerm == 2
MaxStopCalls == 2
MaxBatch == 2
MaxSaves == 3
MaxLen == 4
MaxSeed == 4
MaxMsg == 3
MaxUpdates == 3
MaxReads == 2
MaxOpens == 2
MaxGets == 1

(***************************************************************************)
(* Program constants.                                                      *)
(***************************************************************************)
COMMITTED_BUFFER == 10
\* math.MaxUint64 of Term's call of Entries; the largest integer TLC holds
\* stands for it (no size of the model comes near it).
NoLimit == 2147483647

HARDSTATE_KEY == <<72, 83>>
CONFSTATE_KEY == <<67, 83>>
ENTRY_KEY_PREFIX == <<69>>

NotFound == "ErrNotFound"
Nil == "nil"

(***************************************************************************)
(* Byte strings.                                                           *)
(***************************************************************************)
RECURSIVE BytesLess(_, _)
\* bytes.Compare(a, b) < 0, the order of the key-value store's iterators
BytesLess(a, b) ==
    IF b = <<>> THEN FALSE
    ELSE IF a = <<>> THEN TRUE
    ELSE IF Head(a) # Head(b) THEN Head(a) < Head(b)
    ELSE BytesLess(Tail(a), Tail(b))

HasPrefix(k, p) == Len(k) >= Len(p) /\ SubSeq(k, 1, Len(p)) = p

Pow256(n) == IF n = 0 THEN 1 ELSE IF n = 1 THEN 256 ELSE IF n = 2 THEN 65536 ELSE 16777216

\* binary.BigEndian.PutUint64: the most significant byte first.  The
\* indices of the model stay below 2^31, so the four high bytes are 0.
PutUint64(nr) ==
    <<0, 0, 0, 0, (nr \div Pow256(3)) % 256, (nr \div Pow256(2)) % 256,
      (nr \div Pow256(1)) % 256, nr % 256>>

\* binary.BigEndian.Uint64
Uint64(b) ==
    b[5] * Pow256(3) + b[6] * Pow256(2) + b[7] * Pow256(1) + b[8]

(***************************************************************************)
(* raftpb values and their serialised forms.                               *)
(***************************************************************************)
EntryNormal == 0
EntryConfChange == 1

EmptyHardState == [Term |-> 0, Vote |-> 0, Commit |-> 0]

\* raftpb.Entry{}: what make([]raftpb.Entry, 1) holds
ZeroEntry == [Type |-> EntryNormal, Term |-> 0, Index |-> 0, Data |-> <<>>]

\* raftpb.HardState.Marshal: fields 1..3 as varints
HardStateMarshal(hs) == <<8, hs.Term, 16, hs.Vote, 24, hs.Commit>>

HardStateUnmarshal(b) == [Term |-> b[2], Vote |-> b[4], Commit |-> b[6]]

\* raftpb.Entry.Marshal: Type, Term, Index as varints, Data length-delimited
EntryMarshal(e) ==
    <<8, e.Type, 16, e.Term, 24, e.Index, 34, Len(e.Data)>> \o e.Data

EntryUnmarshal(b) ==
    [Type |-> b[2], Term |-> b[4], Index |-> b[6],
     Data |-> SubSeq(b, 9, 8 + b[8])]

\* raftpb.Entry.Size
EntrySize(e) == Len(EntryMarshal(e))

(***************************************************************************)
(* The key-value store: a function from the keys present to their values.  *)
(***************************************************************************)
EmptyDB == [k \in {} |-> <<>>]

DBGet(d, k) == IF k \in DOMAIN d THEN d[k] ELSE NotFound

DBPut(d, k, v) == [x \in DOMAIN d \cup {k} |-> IF x = k THEN v ELSE d[x]]

DBDelete(d, k) == [x \in DOMAIN d \ {k} |-> d[x]]

RECURSIVE DBWrite(_, _)
\* kv.DB.Write: the batch's operations, in order, as one atomic write
DBWrite(d, wb) ==
    IF wb = <<>> THEN d
    ELSE LET op == Head(wb)
             d1 == IF op[1] = "put" THEN DBPut(d, op[2], op[3])
                   ELSE DBDelete(d, op[2])
         IN DBWrite(d1, Tail(wb))

RECURSIVE SortKeys(_)
\* the keys of a set in the iterator's order
SortKeys(S) ==
    IF S = {} THEN <<>>
    ELSE LET m == CHOOSE k \in S : \A o \in S \ {k} : BytesLess(k, o)
         IN <<m>> \o SortKeys(S \ {m})

\* db.NewIterator(&kv.Range{start, limit}): the keys in [start, limit)
RangeKeys(d, start, limit) ==
    SortKeys({k \in DOMAIN d : ~BytesLess(k, start) /\ BytesLess(k, limit)})

\* db.NewIterator(kv.BytesPrefix(p))
PrefixKeys(d, p) == SortKeys({k \in DOMAIN d : HasPrefix(k, p)})

(***************************************************************************)
(* raftStorage (the prefix of the tests and of the model is empty).        *)
(***************************************************************************)
hardStateKey == HARDSTATE_KEY
confStateKey == CONFSTATE_KEY
entryKeyPrefix == ENTRY_KEY_PREFIX

getEntryKey(nr) == entryKeyPrefix \o PutUint64(nr)

IsInitialized(d) == DBGet(d, hardStateKey) # NotFound

\* an InitialState whose confState.Unmarshal clears the value it decodes onto
InitialStateCleared(d, initialConf) ==
    [hardState |-> IF DBGet(d, hardStateKey) = NotFound THEN EmptyHardState
                   ELSE HardStateUnmarshal(DBGet(d, hardStateKey)),
     confState |-> IF DBGet(d, confStateKey) = NotFound THEN <<>>
                   ELSE DBGet(d, confStateKey),
     err |-> Nil]

\* InitialState: the stored or the zero HardState, the stored or the
\* initial ConfState. With the ConfState key absent, confState.Unmarshal
\* decodes no bytes onto s.initialConf, leaves it as it is and returns the
\* nil error; with the HardState key absent err is set to nil
InitialState(d, initialConf) ==
    [hardState |-> IF DBGet(d, hardStateKey) = NotFound THEN EmptyHardState
                   ELSE HardStateUnmarshal(DBGet(d, hardStateKey)),
     confState |-> IF DBGet(d, confStateKey) = NotFound THEN initialConf
                   ELSE DBGet(d, confStateKey),
     err |-> Nil]

RECURSIVE EntriesLoop(_, _, _, _, _)
EntriesLoop(d, keys, entries, sizeSoFar, maxSize) ==
    IF keys = <<>> THEN entries
    ELSE LET entry == EntryUnmarshal(d[Head(keys)])
             size == sizeSoFar + EntrySize(entry)
         IN IF size > maxSize /\ Len(entries) > 0 THEN entries
            ELSE IF size >= maxSize THEN Append(entries, entry)
            ELSE EntriesLoop(d, Tail(keys), Append(entries, entry), size, maxSize)

\* an Entries that reads its range to the end
EntriesUnlimited(d, lo, hi, maxSize) ==
    EntriesLoop(d, RangeKeys(d, getEntryKey(lo), getEntryKey(hi)), <<>>, 0, NoLimit)

Entries(d, lo, hi, maxSize) ==
    EntriesLoop(d, RangeKeys(d, getEntryKey(lo), getEntryKey(hi)), <<>>, 0, maxSize)

\* raftLog.GetCommitted: the stored entries Entries returns, each as a
\* LogEntry with the entry's Data as its Data
GetCommitted(d, lo, hi, maxSize) ==
    LET entries == Entries(d, lo, hi, maxSize)
    IN [k \in 1..Len(entries) |->
           [Data |-> entries[k].Data, Reconfiguration |-> <<>>]]

\* a Term that reads the entry after i
TermOfNext(d, i) ==
    LET entries == Entries(d, i + 1, i + 2, NoLimit)
    IN IF Len(entries) # 1 THEN [term |-> 0, panic |-> TRUE]
       ELSE [term |-> entries[1].Term, panic |-> FALSE]

\* Term(i): [term, panic]; log.Panicf unless exactly one entry has the index
Term(d, i) ==
    LET entries == Entries(d, i, i + 1, NoLimit)
    IN IF Len(entries) # 1 THEN [term |-> 0, panic |-> TRUE]
       ELSE [term |-> entries[1].Term, panic |-> FALSE]

LastIndex(d) ==
    LET keys == PrefixKeys(d, entryKeyPrefix)
    IN IF keys = <<>> THEN 0
       ELSE Uint64(SubSeq(keys[Len(keys)], Len(entryKeyPrefix) + 1,
                          Len(keys[Len(keys)])))

FirstIndex == 1

\* the entries a store holds under the entry prefix, in key order
StoredLog(store) ==
    LET keys == PrefixKeys(store, entryKeyPrefix)
    IN [i \in 1..Len(keys) |-> EntryUnmarshal(store[keys[i]])]

\* the HardState a store holds
StoredHardState(store) == InitialState(store, <<>>).hardState

\* a batch of save that deletes nothing
SaveNoDeletes(first, lastIndex) == <<>>

\* the deletions up to the entry before the last stored one
SaveDeletesShort(first, lastIndex) ==
    [j \in 1..(IF lastIndex - 1 >= first THEN lastIndex - first ELSE 0) |->
        <<"del", getEntryKey(first + j - 1)>>]

\* the batch of save: the deletions of the old tail, then the new entries
SaveDeletes(first, lastIndex) ==
    [j \in 1..(IF lastIndex >= first THEN lastIndex - first + 1 ELSE 0) |->
        <<"del", getEntryKey(first + j - 1)>>]

SavePuts(entries) ==
    [j \in 1..Len(entries) |->
        <<"put", getEntryKey(entries[j].Index), EntryMarshal(entries[j])>>]

\* a save whose batch is written as it is filled: the HardState is stored
\* when the gap is found
saveUnbatched(d, state, entries) ==
    IF Len(entries) > 0 /\ entries[1].Index > LastIndex(d) + 1
    THEN [db |-> DBPut(d, hardStateKey, HardStateMarshal(state)), panic |-> TRUE]
    ELSE [db |-> DBWrite(d, <<<<"put", hardStateKey, HardStateMarshal(state)>>>>
                            \o SaveDeletes(IF Len(entries) > 0 THEN entries[1].Index ELSE 1,
                                           IF Len(entries) > 0 THEN LastIndex(d) ELSE 0)
                            \o SavePuts(entries)),
          panic |-> FALSE]

\* save: [db, panic]; a gap in the log panics before anything is written
save(d, state, entries) ==
    LET hsPut == <<<<"put", hardStateKey, HardStateMarshal(state)>>>>
    IN IF Len(entries) > 0
       THEN LET lastIndex == LastIndex(d)
            IN IF entries[1].Index > lastIndex + 1
               THEN [db |-> d, panic |-> TRUE]
               ELSE [db |-> DBWrite(d, hsPut \o SaveDeletes(entries[1].Index, lastIndex)
                                       \o SavePuts(entries)),
                     panic |-> FALSE]
       ELSE [db |-> DBWrite(d, hsPut), panic |-> FALSE]


(***************************************************************************)
(* SignedEntryUpdate (client.proto, proto3): update = 1 (a preserved       *)
(* encoding of its own, carried as its bytes), new_sig = 2, old_sig = 3,   *)
(* profile = 4 (carried as its bytes), and the generated codec on the wire *)
(* format.  A byte slice is [null, b]; tags and lengths are one byte.      *)
(***************************************************************************)
NilBytes == [null |-> TRUE, b |-> <<>>]

SomeBytes(x) == [null |-> FALSE, b |-> x]

\* SignedEntryUpdate{}
ZeroSignedEntryUpdate ==
    [Update |-> <<>>, NewSig |-> NilBytes, OldSig |-> NilBytes, Profile |-> NilBytes]

\* skipClient: the length of the unknown field at the head of data by its
\* wire type (varint, 64-bit, length-delimited, 32-bit), 0 when it is cut
\* short or its wire type is no such
skipClient(data) ==
    LET wire == data[1] % 8
        n == IF wire = 0 THEN 2
             ELSE IF wire = 1 THEN 9
             ELSE IF wire = 2 THEN (IF Len(data) >= 2 THEN 2 + data[2] ELSE 0)
             ELSE IF wire = 5 THEN 5
             ELSE 0
    IN IF n <= Len(data) THEN n ELSE 0

RECURSIVE SignedEntryUpdateUnmarshal(_, _)
\* SignedEntryUpdate.Unmarshal onto m: [err, m]. A bytes field is replaced,
\* the profile merged, an unknown field skipped.
SignedEntryUpdateUnmarshal(m, data) ==
    IF data = <<>> THEN [err |-> FALSE, m |-> m]
    ELSE LET fieldNum == data[1] \div 8
             wireType == data[1] % 8
         IN IF fieldNum \in 1..4
            THEN IF wireType # 2 \/ Len(data) < 2 \/ Len(data) < 2 + data[2]
                 THEN [err |-> TRUE, m |-> m]
                 ELSE LET v == SubSeq(data, 3, 2 + data[2])
                          m1 == IF fieldNum = 1 THEN [m EXCEPT !.Update = v]
                                ELSE IF fieldNum = 2 THEN [m EXCEPT !.NewSig = SomeBytes(v)]
                                ELSE IF fieldNum = 3 THEN [m EXCEPT !.OldSig = SomeBytes(v)]
                                ELSE [m EXCEPT !.Profile = SomeBytes(m.Profile.b \o v)]
                      IN SignedEntryUpdateUnmarshal(m1, SubSeq(data, 3 + data[2], Len(data)))
            ELSE LET skippy == skipClient(data)
                 IN IF skippy = 0 THEN [err |-> TRUE, m |-> m]
                    ELSE SignedEntryUpdateUnmarshal(m, SubSeq(data, skippy + 1, Len(data)))

\* SignedEntryUpdate.Marshal: update always, a bytes field when it is not
\* empty, the profile when it is not nil
SignedEntryUpdateMarshal(m) ==
    <<10, Len(m.Update)>> \o m.Update
    \o (IF Len(m.NewSig.b) > 0 THEN <<18, Len(m.NewSig.b)>> \o m.NewSig.b ELSE <<>>)
    \o (IF Len(m.OldSig.b) > 0 THEN <<26, Len(m.OldSig.b)>> \o m.OldSig.b ELSE <<>>)
    \o (IF ~m.Profile.null THEN <<34, Len(m.Profile.b)>> \o m.Profile.b ELSE <<>>)

\* SignedEntryUpdate.Equal: bytes.Equal on the bytes fields (nil equals
\* empty), the profiles both nil or equal
SignedEntryUpdateEqual(a, b) ==
    /\ a.Update = b.Update
    /\ a.NewSig.b = b.NewSig.b
    /\ a.OldSig.b = b.OldSig.b
    /\ a.Profile = b.Profile

\* NewPopulatedSignedEntryUpdate: the values the generator can return, with
\* fields of at most one byte: the bytes fields made (never nil, maybe
\* empty), the profile nil or populated
NewPopulatedSignedEntryUpdate ==
    {[Update |-> u, NewSig |-> SomeBytes(n), OldSig |-> SomeBytes(o), Profile |-> p] :
        u \in {<<>>, <<1>>}, n \in {<<>>, <<1>>}, o \in {<<>>, <<1>>},
        p \in {NilBytes, SomeBytes(<<>>), SomeBytes(<<1>>)}}

(***************************************************************************)
(* SignedEntryUpdate_PreserveEncoding: the decoded view and the preserved  *)
(* bytes, a slice that is the wrapper's own or shares the caller's buffer. *)
(***************************************************************************)
\* SignedEntryUpdate_PreserveEncoding{}
ZeroWrapper ==
    [SignedEntryUpdate |-> ZeroSignedEntryUpdate,
     PreservedEncoding |-> [shared |-> FALSE, b |-> <<>>]]

\* the bytes m.PreservedEncoding holds, buf being the caller's buffer
Preserved(m, buf) == IF m.PreservedEncoding.shared THEN buf ELSE m.PreservedEncoding.b

\* an UpdateEncoding that keeps the bytes it has
UpdateEncodingKept(m) == m

\* *m = SignedEntryUpdate_PreserveEncoding{}
Reset(m) == ZeroWrapper

UpdateEncoding(m) ==
    [m EXCEPT !.PreservedEncoding =
                  [shared |-> FALSE, b |-> SignedEntryUpdateMarshal(m.SignedEntryUpdate)]]

Size(m, buf) == Len(Preserved(m, buf))

\* copy(data, m.PreservedEncoding) into a buffer of len(data), the count
MarshalTo(m, buf, len) ==
    SubSeq(Preserved(m, buf), 1, IF len < Size(m, buf) THEN len ELSE Size(m, buf))

Marshal(m, buf) == MarshalTo(m, buf, Size(m, buf))

\* Unmarshal keeps the caller's slice instead of a copy
UnmarshalShared(m, data) ==
    LET r == SignedEntryUpdateUnmarshal(m.SignedEntryUpdate, data)
    IN [err |-> r.err,
        m |-> [SignedEntryUpdate |-> r.m,
               PreservedEncoding |-> [shared |-> TRUE, b |-> data]]]

\* Unmarshal: append([]byte{}, data...) is a copy; [err, m]
Unmarshal(m, data) ==
    LET r == SignedEntryUpdateUnmarshal(m.SignedEntryUpdate, data)
    IN [err |-> r.err,
        m |-> [SignedEntryUpdate |-> r.m,
               PreservedEncoding |-> [shared |-> FALSE, b |-> data]]]

\* the generator without its call of UpdateEncoding
NewPopulatedNotEncoded(v) == [ZeroWrapper EXCEPT !.SignedEntryUpdate = v]

\* NewPopulatedSignedEntryUpdate_PreserveEncoding, v being what
\* NewPopulatedSignedEntryUpdate returned
NewPopulatedSignedEntryUpdate_PreserveEncoding(v) ==
    UpdateEncoding([ZeroWrapper EXCEPT !.SignedEntryUpdate = v])

Equal(this, that) == SignedEntryUpdateEqual(this.SignedEntryUpdate, that.SignedEntryUpdate)

(***************************************************************************)
(* The ECVRF (vrf/vrf_ed25519). The program works on edwards25519: the     *)
(* field of 2^255 - 19 elements, points encoded in 32 bytes (255 bits of y *)
(* and the sign of x), scalars of 32 bytes and challenges of 16. The model *)
(* keeps every step of the program and scales the sizes down: the field of *)
(* 2^15 - 19 elements, the curve -x^2 + y^2 = 1 + d x^2 y^2 on it with     *)
(* 8 q points (q prime, the base point of order q), points and scalars of  *)
(* N2 = 2 bytes, challenges of N = 1 byte. SHA-256 and SHA-512 are stood   *)
(* for by a fixed function of the bytes written.                           *)
(***************************************************************************)
limit == 10000
N2 == 2
N == N2 \div 2
q == 4111

ErrMalformedInput == "ECVRF: malformed input"
ErrDecodeError == "ECVRF: decode error"

\* the field of the curve: 2^15 - 19, which is 5 modulo 8 as 2^255 - 19 is
FieldPrime == 32749
FeAdd(a, b) == (a + b) % FieldPrime
FeSub(a, b) == (a + FieldPrime - b) % FieldPrime
FeMul(a, b) == (a * b) % FieldPrime
FeIsNegative(a) == a % 2

FeSquare(a) == FeMul(a, a)

\* a to the 2^10 - 1, the head of the two exponentiations
FePow1023(z) ==
    LET Tail31(z31) == FeMul(FeSquare(FeSquare(FeSquare(FeSquare(FeSquare(z31))))), z31)
        Tail15(z15) == Tail31(FeMul(FeSquare(z15), z))
        Tail3(z3) == Tail15(FeMul(FeSquare(FeSquare(z3)), z3))
    IN Tail3(FeMul(FeSquare(z), z))

\* FeInvert: z to the p - 2 = 2^15 - 21 (2^255 - 21 in the program)
FeInvert(z) ==
    LET Tail11(z11) == FeMul(FeSquare(FeSquare(FeSquare(FeSquare(FeSquare(FePow1023(z)))))), z11)
        Tail3(z3) == Tail11(FeMul(FeSquare(FeSquare(FeSquare(z))), z3))
    IN Tail3(FeMul(FeSquare(z), z))

\* fePow22523: z to the (p - 5) / 8 = 2^12 - 3 (2^252 - 3 in the program)
fePow22523(z) == FeMul(FeSquare(FeSquare(FePow1023(z))), z)

\* a square root of -1
SqrtM1 == 15645
\* the curve's d (not a square of the field), and 2 d
d == 40
d2 == FeAdd(d, d)

\* FeFromBytes and FeToBytes: little-endian, the top bit of the last byte
\* ignored on reading
FeFromBytes(s) == (s[1] + 256 * (s[N2] % 128)) % FieldPrime
FeToBytes(a) == <<a % 256, a \div 256>>

\* a point in extended coordinates <<X, Y, Z, T>> (x = X/Z, y = Y/Z,
\* x y = T/Z); NilPoint is the nil pointer, which the operators on points
\* hand on
NilPoint == <<>>
Identity == <<0, 1, 1, 0>>
\* the base point: y = 4/5, x even
BasePoint == <<21774, 26200, 1, FeMul(21774, 26200)>>

\* ExtendedGroupElement.FromBytes: the point of an encoding, NilPoint when
\* no x belongs to the y; the x whose sign is the top bit of the last byte.
\* The steps of the function, each taking the values computed before it:
\* u = y^2 - 1 and v = d y^2 + 1, the candidate x = u v^3 (u v^7)^((p-5)/8),
\* the check of v x^2 against u and -u, the sign.
FromBytes(s) ==
    LET Signed(X, Y) ==
            IF FeIsNegative(X) # s[N2] \div 128
            THEN <<FeSub(0, X), Y, 1, FeMul(FeSub(0, X), Y)>>
            ELSE <<X, Y, 1, FeMul(X, Y)>>
        Checked(X, Y, u, vxx) ==
            IF vxx = u THEN Signed(X, Y)
            ELSE IF FeAdd(vxx, u) = 0 THEN Signed(FeMul(X, SqrtM1), Y)
            ELSE NilPoint
        Rooted(X, Y, u, v) == Checked(X, Y, u, FeMul(FeSquare(X), v))
        Cubed(Y, u, v, v3) ==
            Rooted(FeMul(FeMul(fePow22523(FeMul(u, FeMul(FeSquare(v3), v))), v3), u),
                   Y, u, v)
        Fraction(Y, u, v) == Cubed(Y, u, v, FeMul(FeSquare(v), v))
        Squared(Y, yy) == Fraction(Y, FeSub(yy, 1), FeAdd(FeMul(yy, d), 1))
        Read(Y) == Squared(Y, FeSquare(Y))
    IN IF s = <<>> THEN NilPoint ELSE Read(FeFromBytes(s))

\* ToBytes of an extended or projective point: y, and the sign of x in the
\* top bit of the last byte
ToBytes(P) ==
    LET Encoded(x, y) == [FeToBytes(y) EXCEPT ![N2] = @ + 128 * FeIsNegative(x)]
        Affine(recip) == Encoded(FeMul(P[1], recip), FeMul(P[2], recip))
    IN IF P = NilPoint THEN <<>> ELSE Affine(FeInvert(P[3]))

\* GeAdd: p + qe by the addition of the library, through the cached form of
\* qe (y + x, y - x, Z, 2 d T) and the completed point <<rX, rY, rZ, rT>>
GeAdd(p, qe) ==
    LET Completed(rX, rY, rZ, rT) ==
            <<FeMul(rX, rT), FeMul(rY, rZ), FeMul(rZ, rT), FeMul(rX, rY)>>
        Summed(a, b, c, t0) ==
            Completed(FeSub(a, b), FeAdd(a, b), FeAdd(t0, c), FeSub(t0, c))
        Doubled(a, b, c, zz) == Summed(a, b, c, FeAdd(zz, zz))
    IN IF p = NilPoint \/ qe = NilPoint THEN NilPoint
       ELSE Doubled(FeMul(FeAdd(p[2], p[1]), FeAdd(qe[2], qe[1])),
                    FeMul(FeSub(p[2], p[1]), FeSub(qe[2], qe[1])),
                    FeMul(FeMul(qe[4], d2), p[4]),
                    FeMul(p[3], qe[3]))

RECURSIVE GeMul(_, _)
\* a times the point A by doubling and adding, from the top bit of a down
GeMul(a, A) ==
    LET Step(half) ==
            IF half = NilPoint THEN NilPoint
            ELSE IF a % 2 = 1 THEN GeAdd(GeAdd(half, half), A)
            ELSE GeAdd(half, half)
    IN IF A = NilPoint THEN NilPoint
       ELSE IF a = 0 THEN Identity
       ELSE Step(GeMul(a \div 2, A))

\* GeDoubleScalarMultVartime: a A + b B for the base point B, a and b
\* little-endian scalars
GeDoubleScalarMultVartime(a, A, b) ==
    GeAdd(GeMul(a[1] + 256 * a[2], A), GeMul(b[1] + 256 * b[2], BasePoint))

\* GeScalarMultBase: a B
GeScalarMultBase(a) == GeMul(a[1] + 256 * a[2], BasePoint)

RECURSIVE HashFold(_, _)
HashFold(acc, data) ==
    IF data = <<>> THEN acc
    ELSE HashFold((acc * 131 + Head(data) + 1) % 65521, Tail(data))

\* the first N2 bytes of the SHA-256 and of the SHA-512 of data
Sha256(data) == LET sum == HashFold(7, data) IN <<sum \div 256, sum % 256>>
Sha512(data) == LET sum == HashFold(11, data) IN <<sum % 256, sum \div 256>>

RECURSIVE OS2IP(_)
OS2IP(os) ==
    IF os = <<>> THEN 0
    ELSE 256 * OS2IP(SubSeq(os, 1, Len(os) - 1)) + os[Len(os)]

RECURSIVE Bytes(_)
\* big.Int.Bytes: big-endian, no leading zero
Bytes(b) == IF b = 0 THEN <<>> ELSE Append(Bytes(b \div 256), b % 256)

I2OSP(b, n) ==
    LET os == Bytes(b)
    IN IF n > Len(os) THEN [i \in 1..(n - Len(os)) |-> 0] \o os
       ELSE SubSeq(os, 1, n)

\* F2IP as if the scalar were big-endian already
F2IPNoSwap(f) == OS2IP(f)

F2IP(f) == OS2IP([i \in 1..N2 |-> f[N2 - i + 1]])

IP2F(b) ==
    LET os == Bytes(b)
    IN [i \in 1..N2 |-> IF i <= Len(os) THEN os[Len(os) - i + 1] ELSE 0]

GeScalarMult(h, a) ==
    FromBytes(ToBytes(GeDoubleScalarMultVartime(a, h, [i \in 1..N2 |-> 0])))

G == GeScalarMultBase(FeToBytes(1))
g == G

expandSecret(sk) ==
    LET digest == Sha512(SubSeq(sk, 1, N2))
    IN [digest EXCEPT ![1] = @ - (@ % 8), ![N2] = ((@ % 128) % 64) + 64]

\* ed25519.GenerateKey on the random seed it read: [pub, priv]
GenerateKey(seed) ==
    LET Key(pub) == [pub |-> pub, priv |-> seed \o pub]
    IN Key(ToBytes(GeScalarMultBase(expandSecret(seed))))

OS2ECP(os, sign) ==
    LET buf == [i \in 1..N2 |->
                   LET byte == IF i <= Len(os) THEN os[i] ELSE 0
                   IN IF i = N2 THEN ((sign * 128) % 256) + (byte % 128) ELSE byte]
        InGroup(P) ==
            IF P = NilPoint THEN NilPoint
            ELSE IF ToBytes(GeScalarMult(P, IP2F(q))) # FeToBytes(1) THEN NilPoint
            ELSE P
    IN InGroup(FromBytes(buf))

S2OS(s) == <<(s[N2] \div 128) + 2>> \o s
ECP2OS(P) == S2OS(ToBytes(P))
ECP2OSProj(P) == S2OS(ToBytes(P))

\* ECVRF_hash_points of the byte strings written one after another
ECVRF_hash_points(ps) == OS2IP(SubSeq(Sha256(ps), 1, N))

\* the counters the loop of ECVRF_hash_to_curve is followed through at a time
Stride == 8

RECURSIVE HashToCurveFrom(_, _, _)
\* the loop of ECVRF_hash_to_curve from the counter i on: the point of the
\* first counter below limit whose hash is one, with sign 0 before sign 1;
\* NilPoint is the panic after the loop
HashToCurveFrom(m, pk, i) ==
    LET P(js) == OS2ECP(Sha256(m \o pk \o I2OSP(js[1], 4)), js[2])
        First(hits) ==
            IF hits = {} THEN HashToCurveFrom(m, pk, i + Stride)
            ELSE P(CHOOSE js \in hits : \A ks \in hits :
                       js[1] < ks[1] \/ (js[1] = ks[1] /\ js[2] <= ks[2]))
    IN IF i >= limit THEN NilPoint
       ELSE First({js \in {j \in i..(i + Stride - 1) : j < limit} \X {0, 1} :
                       P(js) # NilPoint})

ECVRF_hash_to_curve(m, pk) == HashToCurveFrom(m, pk, 0)

\* ECVRF_prove, rand being the seed its GenerateKey reads: [pi, panic]. The
\* steps of the function, each taking the values computed before it: x and
\* h, then r and the ephemeral key with its scalar k, then c, then s.
ECVRF_prove(pk, sk, m, rand) ==
    LET Answered(x, r, k, c) ==
            [pi |-> r \o I2OSP(c, N) \o I2OSP((F2IP(k) - c * F2IP(x)) % q, N2),
             panic |-> FALSE]
        Challenged(x, h, r, kp, k) ==
            Answered(x, r, k,
                     ECVRF_hash_points(ECP2OS(g) \o ECP2OS(h) \o S2OS(pk) \o r
                                       \o S2OS(kp) \o ECP2OS(GeScalarMult(h, k))))
        Keyed(x, h, key) ==
            Challenged(x, h, ECP2OS(GeScalarMult(h, x)), key.pub, expandSecret(key.priv))
        Hashed(x, h) ==
            IF h = NilPoint THEN [pi |-> <<>>, panic |-> TRUE]
            ELSE Keyed(x, h, GenerateKey(rand))
    IN Hashed(expandSecret(sk), ECVRF_hash_to_curve(m, pk))

\* the slice after gamma, the challenge and the answer, in place of gamma
proof2hashAfterGamma(pi) == SubSeq(pi, 2 + N2, Len(pi))

ECVRF_proof2hash(pi) == SubSeq(pi, 2, N2 + 1)

\* ECVRF_decode_proof: [r, c, s, err, panic]; reading past the end of pi
\* panics
ECVRF_decode_proof(pi) ==
    LET none == [i \in 1..N2 |-> 0]
        failed(err, panic) == [r |-> NilPoint, c |-> none, s |-> none,
                               err |-> err, panic |-> panic]
        Rest(r) ==
            IF r = NilPoint THEN failed(ErrDecodeError, FALSE)
            ELSE IF Len(pi) < 1 + N2 + N + N2 THEN failed(Nil, TRUE)
            ELSE [r |-> r,
                  c |-> [j \in 1..N2 |-> IF j <= N THEN pi[1 + N2 + N - j + 1] ELSE 0],
                  s |-> [j \in 1..N2 |-> pi[1 + N2 + N + N2 - j + 1]],
                  err |-> Nil, panic |-> FALSE]
    IN IF Len(pi) < 1 THEN failed(Nil, TRUE)
       ELSE IF pi[1] # 2 /\ pi[1] # 3 THEN failed(ErrDecodeError, FALSE)
       ELSE IF Len(pi) < 1 + N2 THEN failed(Nil, TRUE)
       ELSE Rest(OS2ECP(SubSeq(pi, 2, 1 + N2), pi[1] - 2))

\* ECVRF_verify: [ok, err, panic]. The steps of the function, each taking
\* the values computed before it: the decoded proof, the point P of pk, then
\* h, then u and v, then the challenge c2 that is compared with c.
ECVRF_verify(pk, pi, m) ==
    LET Compared(c, c2) == [ok |-> c2 = F2IP(c), err |-> Nil, panic |-> FALSE]
        Combined(dec, h, u, v) ==
            Compared(dec.c,
                     ECVRF_hash_points(ECP2OS(g) \o ECP2OS(h) \o S2OS(pk) \o ECP2OS(dec.r)
                                       \o ECP2OSProj(u) \o ECP2OS(v)))
        Hashed(dec, P, h) ==
            IF h = NilPoint THEN [ok |-> FALSE, err |-> Nil, panic |-> TRUE]
            ELSE Combined(dec, h, GeDoubleScalarMultVartime(dec.c, P, dec.s),
                          GeAdd(GeScalarMult(dec.r, dec.c), GeScalarMult(h, dec.s)))
        Keyed(dec, P) ==
            IF P = NilPoint THEN [ok |-> FALSE, err |-> ErrMalformedInput, panic |-> FALSE]
            ELSE Hashed(dec, P, ECVRF_hash_to_curve(m, pk))
        Decoded(dec) ==
            IF dec.panic THEN [ok |-> FALSE, err |-> Nil, panic |-> TRUE]
            ELSE IF dec.err # Nil THEN [ok |-> FALSE, err |-> dec.err, panic |-> FALSE]
            ELSE Keyed(dec, OS2ECP(pk, pk[N2] \div 128))
    IN Decoded(ECVRF_decode_proof(pi))

(***************************************************************************)
(* The Keyserver (package server), of which the source holds UpdateProfile *)
(* alone: a server is what its replication log was given (log) and what it *)
(* holds (state).                                                          *)
(***************************************************************************)
\* a handler that takes the update: it proposes it to the log and answers
\* with a proof
UpdateProfileAccepting(server, req) ==
    [reply |-> "LookupProof", err |-> Nil,
     server |-> [server EXCEPT !.log = Append(@, req)]]

\* Keyserver.UpdateProfile(ctx, req): [reply, err] and the server after it
UpdateProfile(server, req) ==
    [reply |-> Nil, err |-> "UpdateProfile not implemented", server |-> server]

(***************************************************************************)
(* The state of a cluster of replicators, of their consensus engines and   *)
(* of the goroutines around them.                                          *)
(***************************************************************************)
VARIABLES
    nodes,            \* the ids of the replicas of the cluster (raft.Peer.ID)
    pc,               \* where each replica's run loop is
    rd,               \* the ready batch a run loop is processing
    idx,              \* how many committed entries of rd are delivered
    db,               \* each replica's key-value store
    eng,              \* each replica's consensus engine (raft.Node)
    waitCommitted,    \* the channel l.waitCommitted: [buf, closed]
    leaderHintSet,    \* the channel l.leaderHintSet: [buf, closed]
    leaderHint,       \* l.leaderHint
    grpcClientCache,  \* l.grpcClientCache: Nil (a nil map) or a set of ids
    stop,             \* whether l.stop is closed
    stopped,          \* whether l.stopped is closed
    stopOnce,         \* l.stopOnce: [done, locked]
    callers,          \* the goroutines that call Stop
    fault,            \* why a replica's process panicked
    emitted,          \* history: what was sent on l.waitCommitted
    batches,          \* history: the committed entries of the batches read
    hints,            \* history: what was sent on l.leaderHintSet
    proposed,         \* history: the blobs the engine accepted from Propose
    steps,            \* history: what the run loop did with the batches it read
    stopCloses,       \* history: how many times close(l.stop) ran
    st,               \* a raftStorage called directly: [db, saved, out, read, fatal]
    pe,               \* a SignedEntryUpdate_PreserveEncoding and its caller's buffer
    vrf,              \* a run of ECVRF_prove and ECVRF_verify
    ks                \* a Keyserver and what its UpdateProfile returned last

loopVars == <<pc, rd, idx, fault>>
chanVars == <<waitCommitted, leaderHintSet, leaderHint>>
stopVars == <<stop, stopped, stopOnce, callers, stopCloses>>
histVars == <<emitted, batches, hints, proposed, steps>>
clusterVars == <<nodes, loopVars, db, eng, chanVars, grpcClientCache, stopVars, histVars>>
vars == <<clusterVars, st, pe, vrf, ks>>

(***************************************************************************)
(* The consensus engine (github.com/coreos/etcd/raft), as far as a         *)
(* replica reaches it: StartNode, Tick, Propose, Ready and Advance.        *)
(***************************************************************************)
None == 0

StateFollower == "StateFollower"
StateCandidate == "StateCandidate"
StateLeader == "StateLeader"

\* raftpb.ConfChange{Type: ConfChangeAddNode, NodeID: id}.Marshal()
ConfChangeMarshal(id) == <<8, 0, 16, 0, 24, id>>

RECURSIVE SetToSeq(_)
\* the ids of a set in increasing order
SetToSeq(S) ==
    IF S = {} THEN <<>>
    ELSE LET m == CHOOSE x \in S : \A y \in S : x <= y
         IN <<m>> \o SetToSeq(S \ {m})

\* the log StartNode builds: one ConfChangeAddNode entry of term 1 per peer
BootstrapLog(peers) ==
    [i \in 1..Len(peers) |->
        [Type |-> EntryConfChange, Term |-> 1, Index |-> i,
         Data |-> ConfChangeMarshal(peers[i])]]

SoftStateOf(e) == [Lead |-> e.lead, RaftState |-> e.state]

\* the nil *SoftState of a batch without a soft-state update
NilSoftState == [Lead |-> None, RaftState |-> Nil]

HardStateOf(e) == [Term |-> e.term, Vote |-> e.vote, Commit |-> e.commit]

\* raft.StartNode(&config, peers): a follower of term 1 whose log holds the
\* committed bootstrap entries
StartNode(id, peers) ==
    LET e == [id |-> id, peers |-> peers, state |-> StateFollower, term |-> 1,
              vote |-> None, lead |-> None, log |-> BootstrapLog(peers),
              commit |-> Len(peers), stable |-> 0, applied |-> 0, msgs |-> <<>>,
              prevSoft |-> NilSoftState, prevHard |-> EmptyHardState,
              advancing |-> FALSE, rdStable |-> 0, rdApplied |-> 0]
    IN [e EXCEPT !.prevSoft = SoftStateOf(e)]

\* an engine restarted without the watermark of its caller
RestartNodeUnapplied(id, store, initialConf, lo) ==
    LET hs == InitialState(store, initialConf).hardState
        log == Entries(store, FirstIndex, LastIndex(store) + 1, NoLimit)
        e == [id |-> id, peers |-> InitialState(store, initialConf).confState,
              state |-> StateFollower, term |-> hs.Term, vote |-> hs.Vote,
              lead |-> None, log |-> log, commit |-> hs.Commit,
              stable |-> Len(log), applied |-> 0, msgs |-> <<>>,
              prevSoft |-> NilSoftState, prevHard |-> EmptyHardState,
              advancing |-> FALSE, rdStable |-> 0, rdApplied |-> 0]
    IN [e EXCEPT !.prevSoft = SoftStateOf(e)]

\* raft.RestartNode(&config) with config.Applied = lo: a follower whose
\* term, vote and commit index are the stored HardState's and whose log is
\* the stored entries from FirstIndex on
RestartNode(id, store, initialConf, lo) ==
    LET hs == InitialState(store, initialConf).hardState
        log == Entries(store, FirstIndex, LastIndex(store) + 1, NoLimit)
        e == [id |-> id, peers |-> InitialState(store, initialConf).confState,
              state |-> StateFollower, term |-> hs.Term, vote |-> hs.Vote,
              lead |-> None, log |-> log, commit |-> hs.Commit,
              stable |-> Len(log), applied |-> lo, msgs |-> <<>>,
              prevSoft |-> NilSoftState, prevHard |-> EmptyHardState,
              advancing |-> FALSE, rdStable |-> 0, rdApplied |-> 0]
    IN [e EXCEPT !.prevSoft = SoftStateOf(e)]

\* the engine of a replica that was not started: l.node is nil
NoEngine == [state |-> Nil]

Quorum(e) == Len(e.peers) \div 2 + 1

\* the leader appends an entry; a quorum of one commits it at once
AppendEntry(e, data) ==
    LET ent == [Type |-> EntryNormal, Term |-> e.term, Index |-> Len(e.log) + 1,
                Data |-> data]
        log == Append(e.log, ent)
    IN [e EXCEPT !.log = log,
                 !.commit = IF Quorum(e) = 1 THEN Len(log) ELSE e.commit]

VoteRequests(e) ==
    LET others == SelectSeq(e.peers, LAMBDA p : p # e.id)
    IN [i \in 1..Len(others) |->
          [Type |-> "MsgVote", From |-> e.id, To |-> others[i], Term |-> e.term]]

\* the election timeout: a new term; alone in the cluster the node wins
\* at once and appends the empty entry of its term, otherwise it asks the
\* peers for their votes
Campaign(e) ==
    LET c == [e EXCEPT !.term = e.term + 1, !.vote = e.id, !.lead = None,
                       !.state = StateCandidate]
    IN IF Quorum(c) = 1
       THEN AppendEntry([c EXCEPT !.state = StateLeader, !.lead = c.id], <<>>)
       ELSE [c EXCEPT !.msgs = c.msgs \o VoteRequests(c)]

EmptySnapshot == [Index |-> 0, Term |-> 0]

\* newReady: what the engine offers on Ready()
ReadyOf(e) ==
    [SoftState |-> IF SoftStateOf(e) # e.prevSoft THEN SoftStateOf(e)
                   ELSE NilSoftState,
     HardState |-> IF HardStateOf(e) # e.prevHard THEN HardStateOf(e)
                   ELSE EmptyHardState,
     Entries |-> SubSeq(e.log, e.stable + 1, Len(e.log)),
     CommittedEntries |-> SubSeq(e.log, e.applied + 1, e.commit),
     Messages |-> e.msgs,
     Snapshot |-> EmptySnapshot]

\* the zero Ready: what rd holds before the first batch
NoReady ==
    [SoftState |-> NilSoftState, HardState |-> EmptyHardState, Entries |-> <<>>,
     CommittedEntries |-> <<>>, Messages |-> <<>>, Snapshot |-> EmptySnapshot]

\* Ready.containsUpdates
ContainsUpdates(r) ==
    \/ r.SoftState # NilSoftState
    \/ r.HardState # EmptyHardState
    \/ Len(r.Entries) > 0
    \/ Len(r.CommittedEntries) > 0
    \/ Len(r.Messages) > 0

\* the engine after its Ready was read, until Advance
AfterReady(e) ==
    [e EXCEPT !.prevSoft = SoftStateOf(e),
              !.prevHard = HardStateOf(e),
              !.msgs = <<>>,
              !.advancing = TRUE,
              !.rdStable = Len(e.log),
              !.rdApplied = e.commit]

\* node.Advance
Advance(e) ==
    [e EXCEPT !.stable = e.rdStable, !.applied = e.rdApplied, !.advancing = FALSE]


(***************************************************************************)
(* raftLog: Open, Start, Propose and the run loop.                         *)
(***************************************************************************)
OpenChan == [buf |-> <<>>, closed |-> FALSE]

Alive(n) == pc[n] \notin {"unstarted", "panicked"}

\* an unrecovered panic ends the process of the replica: what its channels
\* buffered is gone with it
Panic(n, why) ==
    /\ pc' = [pc EXCEPT ![n] = "panicked"]
    /\ fault' = [fault EXCEPT ![n] = why]
    /\ waitCommitted' = [waitCommitted EXCEPT ![n].buf = <<>>]
    /\ leaderHintSet' = [leaderHintSet EXCEPT ![n].buf = <<>>]

\* the step goes on without a panic
NoPanic == UNCHANGED <<fault, waitCommitted, leaderHintSet>>

\* Start with the replica itself as the only initial node
StartAlone(n) ==
    /\ pc[n] = "unstarted"
    /\ ~IsInitialized(db[n])
    /\ LET hardState == InitialState(db[n], <<n>>).hardState
           res == save(db[n], hardState, <<ZeroEntry>>)
       IN /\ db' = [db EXCEPT ![n] = res.db]
          /\ eng' = [eng EXCEPT ![n] = StartNode(n, <<n>>)]
          /\ pc' = [pc EXCEPT ![n] = "select"]
    /\ UNCHANGED <<nodes, rd, idx, fault, chanVars, grpcClientCache, stopVars,
                   histVars, st, pe, vrf, ks>>

\* Start(0) on the storage Open was given: the dummy first entry is saved,
\* the engine starts with the initial nodes, the run loop starts
Start(n) ==
    /\ pc[n] = "unstarted"
    /\ ~IsInitialized(db[n])
    /\ LET hardState == InitialState(db[n], SetToSeq(nodes)).hardState
           res == save(db[n], hardState, <<ZeroEntry>>)
       IN /\ db' = [db EXCEPT ![n] = res.db]
          /\ eng' = [eng EXCEPT ![n] = StartNode(n, SetToSeq(nodes))]
          /\ pc' = [pc EXCEPT ![n] = "select"]
    /\ UNCHANGED <<nodes, rd, idx, fault, chanVars, grpcClientCache, stopVars,
                   histVars, st, pe, vrf, ks>>

\* Start(lo) on a replicator that was started before: the storage is
\* initialized, l.node is replaced by the engine RestartNode returns and
\* another run loop is started. After Stop that loop is the only one; while
\* the first loop runs there are two ("doubled"), which share the fields of
\* the replica without synchronisation: the model does not follow them
Restart(n, lo) ==
    /\ pc[n] \notin {"unstarted", "panicked", "doubled"}
    /\ IsInitialized(db[n])
    /\ lo <= InitialState(db[n], SetToSeq(nodes)).hardState.Commit
    /\ eng' = [eng EXCEPT ![n] = RestartNode(n, db[n], SetToSeq(nodes), lo)]
    /\ pc' = [pc EXCEPT ![n] = IF pc[n] = "exited" THEN "select" ELSE "doubled"]
    /\ steps' = [steps EXCEPT ![n].lo = lo]
    /\ UNCHANGED <<nodes, rd, idx, fault, db, chanVars, grpcClientCache, stopVars,
                   emitted, batches, hints, proposed, st, pe, vrf, ks>>

\* Start(lo) with lo # 0 on a storage that is not initialized: log.Panicf
\* before anything is written or started
StartStale(n, lo) ==
    /\ pc[n] = "unstarted"
    /\ ~IsInitialized(db[n])
    /\ lo # 0
    /\ Panic(n, "storage uninitialized but state machine not fresh")
    /\ UNCHANGED <<nodes, rd, idx, db, eng, leaderHint, grpcClientCache, stopVars,
                   histVars, st, pe, vrf, ks>>

\* Propose on a replicator that was not started: l.node is nil
ProposeUnstarted(n) ==
    /\ pc[n] = "unstarted"
    /\ Panic(n, "nil pointer dereference")
    /\ UNCHANGED <<nodes, rd, idx, db, eng, leaderHint, grpcClientCache, stopVars,
                   histVars, st, pe, vrf, ks>>

\* Propose: l.node.Propose returns once the engine, which has a leader,
\* took the blob; the k-th blob of a replica is the byte k-1
Propose(n) ==
    /\ Alive(n)
    /\ eng[n].lead # None
    /\ Len(proposed[n]) < MaxProposals
    /\ LET data == <<Len(proposed[n])>>
       IN /\ eng' = [eng EXCEPT ![n] = AppendEntry(eng[n], data)]
          /\ proposed' = [proposed EXCEPT ![n] = Append(proposed[n], data)]
    /\ UNCHANGED <<nodes, loopVars, db, chanVars, grpcClientCache, stopVars,
                   emitted, batches, hints, steps, st, pe, vrf, ks>>

\* case <-l.stop: return, and the deferred closes run, the first of them
\* close(l.leaderHintSet); the close of a channel that an earlier run loop
\* closed panics
LoopStop(n) ==
    /\ pc[n] = "select"
    /\ stop[n]
    /\ IF leaderHintSet[n].closed
       THEN /\ Panic(n, "close of closed channel")
            /\ UNCHANGED stopped
       ELSE /\ pc' = [pc EXCEPT ![n] = "exited"]
            /\ leaderHintSet' = [leaderHintSet EXCEPT ![n].closed = TRUE]
            /\ stopped' = [stopped EXCEPT ![n] = TRUE]
            /\ waitCommitted' = [waitCommitted EXCEPT ![n].closed = TRUE]
            /\ UNCHANGED fault
    /\ UNCHANGED <<nodes, rd, idx, db, eng, leaderHint, grpcClientCache,
                   stop, stopOnce, callers, stopCloses, histVars, st, pe, vrf, ks>>

\* case <-ticker.C: l.node.Tick(); the tick that reaches the election
\* timeout of a node that is no leader starts a campaign
LoopTick(n) ==
    /\ pc[n] = "select"
    /\ \E timeout \in BOOLEAN :
          eng' = [eng EXCEPT ![n] =
                     IF timeout /\ eng[n].state # StateLeader /\ eng[n].term < MaxTerm
                     THEN Campaign(eng[n]) ELSE eng[n]]
    /\ UNCHANGED <<nodes, loopVars, db, chanVars, grpcClientCache, stopVars,
                   histVars, st, pe, vrf, ks>>

\* the run loop with the ready batch r: a snapshot in the batch is fatal;
\* then l.storage.save(rd.HardState, rd.Entries)
ReadBatch(n, r) ==
    LET res == save(db[n], r.HardState, r.Entries)
        saved == r.Snapshot = EmptySnapshot /\ ~res.panic
    IN /\ rd' = [rd EXCEPT ![n] = r]
       /\ eng' = [eng EXCEPT ![n] = AfterReady(eng[n])]
       /\ batches' = [batches EXCEPT ![n] = batches[n] \o r.CommittedEntries]
       /\ idx' = [idx EXCEPT ![n] = 0]
       /\ steps' = [steps EXCEPT ![n].reads = @ + 1,
                                 ![n].hard = IF r.HardState # EmptyHardState
                                             THEN r.HardState ELSE @,
                                 ![n].saved = saved,
                                 ![n].applied = 0,
                                 ![n].advances = 0]
       /\ IF r.Snapshot # EmptySnapshot
          THEN Panic(n, "snapshots not supported") /\ UNCHANGED db
          ELSE /\ db' = [db EXCEPT ![n] = res.db]
               /\ IF res.panic THEN Panic(n, "missing log entries")
                  ELSE /\ pc' = [pc EXCEPT ![n] =
                                    IF Len(r.Messages) > 0 THEN "send" ELSE "deliver"]
                       /\ NoPanic
       /\ UNCHANGED <<nodes, leaderHint, grpcClientCache, stopVars, emitted,
                      hints, proposed, st, pe, vrf, ks>>

\* case rd := <-l.node.Ready()
LoopReady(n) ==
    /\ pc[n] = "select"
    /\ ~eng[n].advancing
    /\ ContainsUpdates(ReadyOf(eng[n]))
    /\ ReadBatch(n, ReadyOf(eng[n]))

\* l.send(&rd.Messages[i]): a peer without a cached client is dialled (a
\* dial that fails is reported with go l.node.ReportUnreachable) and the
\* client stored in l.grpcClientCache, which Open never makes: the
\* assignment to an entry of the nil map panics
send(n, msg, dialErr) ==
    /\ steps' = [steps EXCEPT ![n].unreachable =
                    IF dialErr /\ (grpcClientCache[n] = Nil \/ msg.To \notin grpcClientCache[n])
                    THEN @ \cup {msg.To} ELSE @]
    /\ IF grpcClientCache[n] = Nil
       THEN /\ Panic(n, "assignment to entry in nil map")
            /\ UNCHANGED grpcClientCache
       ELSE /\ grpcClientCache' = [grpcClientCache EXCEPT ![n] = @ \cup {msg.To}]
            /\ pc' = [pc EXCEPT ![n] = "deliver"]
            /\ NoPanic

LoopSend(n) ==
    /\ pc[n] = "send"
    /\ \E dialErr \in BOOLEAN : send(n, rd[n].Messages[1], dialErr)
    /\ UNCHANGED <<nodes, rd, idx, db, eng, leaderHint, stopVars, emitted,
                   batches, hints, proposed, st, pe, vrf, ks>>

\* every committed entry as Data, whatever its type
LogEntryData(entry) == [Data |-> entry.Data, Reconfiguration |-> <<>>]

\* the LogEntry of a committed entry
LogEntryOf(entry) ==
    IF entry.Type = EntryConfChange
    THEN [Data |-> <<>>, Reconfiguration |-> entry.Data]
    ELSE [Data |-> entry.Data, Reconfiguration |-> <<>>]

\* cc.Unmarshal(entry.Data): the node of a ConfChangeAddNode
ConfChangeNode(data) == data[6]

\* raft.Node.ApplyConfChange of a ConfChangeAddNode: the node joins the
\* engine's configuration unless it is in it
ApplyConfChange(peers, id) ==
    IF \E i \in 1..Len(peers) : peers[i] = id THEN peers ELSE Append(peers, id)

\* for _, entry := range rd.CommittedEntries: l.node.ApplyConfChange(cc) for
\* a configuration change, whose result (the new ConfState) is dropped, and
\* l.waitCommitted <- ..., which blocks while the buffer is full and panics
\* on a closed channel
LoopDeliver(n) ==
    /\ pc[n] = "deliver"
    /\ idx[n] < Len(rd[n].CommittedEntries)
    /\ LET entry == rd[n].CommittedEntries[idx[n] + 1]
           le == LogEntryOf(entry)
       IN /\ steps' = [steps EXCEPT
                          ![n].applied = IF entry.Type = EntryConfChange THEN @ + 1 ELSE @,
                          ![n].changes = IF entry.Type = EntryConfChange
                                         THEN Append(@, ConfChangeNode(entry.Data)) ELSE @]
          /\ eng' = [eng EXCEPT ![n].peers =
                        IF entry.Type = EntryConfChange
                        THEN ApplyConfChange(@, ConfChangeNode(entry.Data)) ELSE @]
          /\ IF waitCommitted[n].closed
             THEN /\ Panic(n, "send on closed channel")
                  /\ UNCHANGED <<emitted, idx>>
             ELSE /\ Len(waitCommitted[n].buf) < COMMITTED_BUFFER
                  /\ waitCommitted' = [waitCommitted EXCEPT ![n].buf = Append(@, le)]
                  /\ emitted' = [emitted EXCEPT ![n] = Append(@, le)]
                  /\ idx' = [idx EXCEPT ![n] = @ + 1]
                  /\ UNCHANGED <<pc, fault, leaderHintSet>>
    /\ UNCHANGED <<nodes, rd, db, leaderHint, grpcClientCache, stopVars,
                   batches, hints, proposed, st, pe, vrf, ks>>

\* leaderHint := rd.SoftState.RaftState == raft.StateLeader, with
\* rd.SoftState nil in a batch without a soft-state update, and
\* l.node.Advance()
LoopAdvance(n) ==
    /\ pc[n] = "deliver"
    /\ idx[n] = Len(rd[n].CommittedEntries)
    /\ IF rd[n].SoftState = NilSoftState
       THEN /\ Panic(n, "nil pointer dereference")
            /\ UNCHANGED <<eng, steps>>
       ELSE /\ eng' = [eng EXCEPT ![n] = Advance(eng[n])]
            /\ steps' = [steps EXCEPT ![n].advances = @ + 1]
            /\ pc' = [pc EXCEPT ![n] = "hint"]
            /\ NoPanic
    /\ UNCHANGED <<nodes, rd, idx, db, leaderHint, grpcClientCache, stopVars,
                   emitted, batches, hints, proposed, st, pe, vrf, ks>>

\* if l.leaderHint != leaderHint: the new value is stored and sent on
\* l.leaderHintSet, which blocks while the buffer is full and panics on a
\* closed channel
LoopHint(n) ==
    /\ pc[n] = "hint"
    /\ LET hint == (rd[n].SoftState.RaftState = StateLeader)
       IN IF leaderHint[n] = hint
          THEN /\ pc' = [pc EXCEPT ![n] = "select"]
               /\ UNCHANGED <<leaderHint, leaderHintSet, hints, fault, waitCommitted>>
          ELSE /\ leaderHint' = [leaderHint EXCEPT ![n] = hint]
               /\ IF leaderHintSet[n].closed
                  THEN /\ Panic(n, "send on closed channel")
                       /\ UNCHANGED hints
                  ELSE /\ Len(leaderHintSet[n].buf) < COMMITTED_BUFFER
                       /\ leaderHintSet' = [leaderHintSet EXCEPT ![n].buf = Append(@, hint)]
                       /\ hints' = [hints EXCEPT ![n] = Append(@, hint)]
                       /\ pc' = [pc EXCEPT ![n] = "select"]
                       /\ UNCHANGED <<fault, waitCommitted>>
    /\ UNCHANGED <<nodes, rd, idx, db, eng, grpcClientCache, stopVars, emitted,
                   batches, proposed, steps, st, pe, vrf, ks>>

\* a consumer of WaitCommitted() takes the next entry
Consume(n) ==
    /\ pc[n] # "panicked"
    /\ Len(waitCommitted[n].buf) > 0
    /\ waitCommitted' = [waitCommitted EXCEPT ![n].buf = Tail(@)]
    /\ UNCHANGED <<nodes, loopVars, db, eng, leaderHintSet, leaderHint,
                   grpcClientCache, stopVars, histVars, st, pe, vrf, ks>>

\* a consumer of LeaderHintSet() takes the next value
ConsumeHint(n) ==
    /\ pc[n] # "panicked"
    /\ Len(leaderHintSet[n].buf) > 0
    /\ leaderHintSet' = [leaderHintSet EXCEPT ![n].buf = Tail(@)]
    /\ UNCHANGED <<nodes, loopVars, db, eng, waitCommitted, leaderHint,
                   grpcClientCache, stopVars, histVars, st, pe, vrf, ks>>


(***************************************************************************)
(* Stop: l.stopOnce.Do(func() { l.grpcServer.Stop(); close(l.stop);        *)
(* <-l.stopped }), with sync.Once as a done flag under a mutex.            *)
(***************************************************************************)
IdleCaller == [node |-> None, pc |-> "idle", late |-> FALSE, ran |-> FALSE]

\* Stop is called on a started replica: with done already set, Do returns
\* at once
StopCall(c, n) ==
    /\ callers[c].pc = "idle"
    /\ Alive(n)
    /\ callers' = [callers EXCEPT ![c] =
                     [node |-> n, late |-> stopOnce[n].done, ran |-> FALSE,
                      pc |-> IF stopOnce[n].done THEN "returned" ELSE "lock"]]
    /\ UNCHANGED <<nodes, loopVars, db, eng, chanVars, grpcClientCache, stop,
                   stopped, stopOnce, stopCloses, histVars, st, pe, vrf, ks>>

\* the function runs under the mutex without a look at done
StopLockUnchecked(c) ==
    LET n == callers[c].node
    IN /\ callers[c].pc = "lock"
       /\ Alive(n)
       /\ ~stopOnce[n].locked
       /\ stopCloses' = [stopCloses EXCEPT ![n] = @ + 1]
       /\ callers' = [callers EXCEPT ![c].pc = "wait", ![c].ran = TRUE]
       /\ stopOnce' = [stopOnce EXCEPT ![n].locked = TRUE]
       /\ IF stop[n]
          THEN Panic(n, "close of closed channel") /\ UNCHANGED stop
          ELSE stop' = [stop EXCEPT ![n] = TRUE] /\ UNCHANGED pc /\ NoPanic
       /\ UNCHANGED <<nodes, rd, idx, db, eng, leaderHint, grpcClientCache,
                      stopped, histVars, st, pe, vrf, ks>>

\* o.m.Lock(); if o.done == 0 the function runs: close(l.stop), which
\* panics on a closed channel
StopLock(c) ==
    LET n == callers[c].node
    IN /\ callers[c].pc = "lock"
       /\ Alive(n)
       /\ ~stopOnce[n].locked
       /\ IF stopOnce[n].done
          THEN /\ callers' = [callers EXCEPT ![c].pc = "returned"]
               /\ UNCHANGED <<stop, stopOnce, stopCloses, pc>>
               /\ NoPanic
          ELSE /\ stopCloses' = [stopCloses EXCEPT ![n] = @ + 1]
               /\ callers' = [callers EXCEPT ![c].pc = "wait", ![c].ran = TRUE]
               /\ stopOnce' = [stopOnce EXCEPT ![n].locked = TRUE]
               /\ IF stop[n]
                  THEN Panic(n, "close of closed channel") /\ UNCHANGED stop
                  ELSE stop' = [stop EXCEPT ![n] = TRUE] /\ UNCHANGED pc /\ NoPanic
       /\ UNCHANGED <<nodes, rd, idx, db, eng, leaderHint, grpcClientCache,
                      stopped, histVars, st, pe, vrf, ks>>

\* <-l.stopped, then done is set, the mutex released and Stop returns
StopWait(c) ==
    LET n == callers[c].node
    IN /\ callers[c].pc = "wait"
       /\ Alive(n)
       /\ stopped[n]
       /\ callers' = [callers EXCEPT ![c].pc = "returned"]
       /\ stopOnce' = [stopOnce EXCEPT ![n] = [done |-> TRUE, locked |-> FALSE]]
       /\ UNCHANGED <<nodes, loopVars, db, eng, chanVars, grpcClientCache, stop,
                      stopped, stopCloses, histVars, st, pe, vrf, ks>>

(***************************************************************************)
(* The cluster: Open on each replica of a cluster of 1..MaxNodes replicas, *)
(* each with an empty store, then Start on each, proposals and consumers.  *)
(***************************************************************************)
Callers == 1..MaxStopCalls

\* a raftStorage on an empty store: no save yet (saved is the history of the
\* batches saved, out what Entries returned last, read whether that was
\* after the last save; prev is the store before the last call of save, hs
\* and es the HardState and the entries of that call, fatal whether it
\* panicked)
NoCall == [op |-> "none", lo |-> 0, hi |-> 0, maxSize |-> 0, conf |-> <<>>]

NoReturn ==
    [entries |-> <<>>, term |-> 0, panic |-> FALSE, hardState |-> EmptyHardState,
     confState |-> <<>>, err |-> Nil]

IdleStorage ==
    [db |-> EmptyDB, saved |-> <<>>, out |-> <<>>, read |-> FALSE, fatal |-> FALSE,
     prev |-> EmptyDB, hs |-> EmptyHardState, es |-> <<>>, call |-> NoCall,
     ret |-> NoReturn]
\* no wrapper in use
IdleEncoding ==
    [phase |-> "idle", given |-> <<>>, buf |-> <<>>, w |-> ZeroWrapper,
     gen |-> ZeroWrapper, out |-> <<>>, size |-> 0, back |-> ZeroWrapper,
     out2 |-> <<>>, err |-> FALSE]
\* no key pair yet
IdleVRF ==
    [phase |-> "idle", sk |-> <<>>, pk |-> <<>>, m |-> <<>>, pi |-> <<>>,
     pi2 |-> <<>>, flip |-> "none", vm |-> <<>>, vpi |-> <<>>,
     ok |-> FALSE, err |-> Nil]

\* a Keyserver on which UpdateProfile was not called: calls counts the calls,
\* req is the last request, reply and err what the call returned, server the
\* server and was the server as it was made
IdleKeyserver ==
    [calls |-> 0, req |-> Nil, reply |-> Nil, err |-> Nil,
     server |-> [log |-> <<>>, state |-> {}], was |-> [log |-> <<>>, state |-> {}]]

\* a run loop that has read no batch: opens counts the processes that
\* opened the storage, lo is the watermark the last Start was given, reads
\* counts the batches read, hard is the last HardState that was not empty
\* among theirs, changes the nodes of the configuration changes applied,
\* unreachable the peers ReportUnreachable was called for; of the batch being
\* processed, saved tells that storage.save returned, applied counts the
\* calls of ApplyConfChange and advances those of Advance; got is the last
\* call of GetCommitted: its lo, the engine's commit index then, its result
NoSteps ==
    [opens |-> 1, lo |-> 0, reads |-> 0, hard |-> EmptyHardState, changes |-> <<>>,
     unreachable |-> {}, saved |-> FALSE, applied |-> 0, advances |-> 0,
     got |-> [calls |-> 0, lo |-> 0, commit |-> 0, ret |-> <<>>]]

\* the replicas of a cluster after Open
Opened(ns) ==
    /\ nodes = ns
    /\ pc = [n \in nodes |-> "unstarted"]
    /\ rd = [n \in nodes |-> NoReady]
    /\ idx = [n \in nodes |-> 0]
    /\ fault = [n \in nodes |-> Nil]
    /\ db = [n \in nodes |-> EmptyDB]
    /\ eng = [n \in nodes |-> NoEngine]
    /\ waitCommitted = [n \in nodes |-> OpenChan]
    /\ leaderHintSet = [n \in nodes |-> OpenChan]
    /\ leaderHint = [n \in nodes |-> FALSE]
    /\ grpcClientCache = [n \in nodes |-> Nil]
    /\ stop = [n \in nodes |-> FALSE]
    /\ stopped = [n \in nodes |-> FALSE]
    /\ stopOnce = [n \in nodes |-> [done |-> FALSE, locked |-> FALSE]]
    /\ callers = [c \in Callers |-> IdleCaller]
    /\ emitted = [n \in nodes |-> <<>>]
    /\ batches = [n \in nodes |-> <<>>]
    /\ hints = [n \in nodes |-> <<>>]
    /\ proposed = [n \in nodes |-> <<>>]
    /\ stopCloses = [n \in nodes |-> 0]
    /\ steps = [n \in nodes |-> NoSteps]

Init ==
    /\ \E k \in 1..MaxNodes : Opened(1..k)
    /\ st = IdleStorage
    /\ pe = IdleEncoding
    /\ vrf = IdleVRF
    /\ ks = IdleKeyserver

Next ==
    \/ \E n \in nodes : Start(n)
    \/ \E n \in nodes : Propose(n)
    \/ \E n \in nodes : LoopTick(n)
    \/ \E n \in nodes : LoopReady(n)
    \/ \E n \in nodes : LoopSend(n)
    \/ \E n \in nodes : LoopDeliver(n)
    \/ \E n \in nodes : LoopAdvance(n)
    \/ \E n \in nodes : LoopHint(n)
    \/ \E n \in nodes : Consume(n)
    \/ \E n \in nodes : ConsumeHint(n)

Spec == Init /\ [][Next]_vars

\* isConsistentPrefix of the tests: the two sequences agree on the length of
\* the shorter
isConsistentPrefix(a, b) ==
    LET l == IF Len(b) < Len(a) THEN Len(b) ELSE Len(a)
    IN SubSeq(a, 1, l) = SubSeq(b, 1, l)

\* C1: log prefix consistency. In every reachable state of a cluster, for
\* any two replicas the sequence of entries one has delivered on
\* waitCommitted is a prefix of what the other has delivered: no two
\* replicas deliver different entries at the same position.
C1_PrefixConsistency ==
    \A a, b \in nodes : isConsistentPrefix(emitted[a], emitted[b])

\* two replicas have both delivered entries, one more than the other
C1_Witness ==
    \E a, b \in nodes :
        /\ a # b
        /\ Len(emitted[b]) > 0
        /\ Len(emitted[a]) > Len(emitted[b])

\* what a committed entry is delivered as
IsDeliveryOf(le, entry) ==
    IF entry.Type = EntryConfChange
    THEN le.Reconfiguration = entry.Data /\ le.Data = <<>>
    ELSE le.Data = entry.Data /\ le.Reconfiguration = <<>>

\* C2: on each replica the run loop delivers the committed entries of the
\* ready batches in strictly increasing log index, each exactly once and in
\* batch order (the k-th entry delivered is the k-th committed entry the
\* loop was handed, none skipped, repeated or reordered), a configuration
\* change as Reconfiguration and anything else as Data; a batch is delivered
\* whole before the loop goes on to Advance.
C2_DeliveredInOrder ==
    \A n \in nodes :
        /\ Len(emitted[n]) <= Len(batches[n])
        /\ \A i \in 1..Len(emitted[n]) : IsDeliveryOf(emitted[n][i], batches[n][i])
        /\ \A i \in 1..(Len(batches[n]) - 1) :
              batches[n][i].Index < batches[n][i + 1].Index
        /\ pc[n] = "deliver" =>
              Len(emitted[n]) = Len(batches[n]) - Len(rd[n].CommittedEntries) + idx[n]
        /\ pc[n] \in {"hint", "select", "exited"} => Len(emitted[n]) = Len(batches[n])

\* a replica has delivered a configuration change and, from a later batch,
\* a proposed blob
C2_Witness ==
    \E n \in nodes :
        /\ Len(emitted[n]) >= 3
        /\ emitted[n][1].Reconfiguration # <<>>
        /\ emitted[n][Len(emitted[n])].Data # <<>>
        /\ pc[n] = "select"

\* no replica, proposer or consumer of the cluster can take a further step
Quiescent == ~ENABLED <<Next>>_vars

\* the proposed blobs among the delivered entries
Blobs(s) == SelectSeq(s, LAMBDA le : le.Data # <<>>)

\* C3: convergence in a cluster of three or more replicas. With the clocks
\* ticking and the consumers draining, the cluster does not come to rest
\* before every replica has delivered proposed blobs.
C3_Convergence ==
    (Cardinality(nodes) >= 3 /\ Quiescent) =>
        \A n \in nodes : Len(Blobs(emitted[n])) > 0

\* C4: in a one-node replicator the blobs 0, 1, 2, proposed in that order,
\* are all delivered, in that order: the replicator does not come to rest
\* with three blobs proposed and not these three delivered.
C4_ProposalsDelivered ==
    (nodes = {1} /\ Len(proposed[1]) >= 3 /\ Quiescent) =>
        /\ Len(Blobs(emitted[1])) >= 3
        /\ SubSeq(Blobs(emitted[1]), 1, 3) =
              <<[Data |-> <<0>>, Reconfiguration |-> <<>>],
                [Data |-> <<1>>, Reconfiguration |-> <<>>],
                [Data |-> <<2>>, Reconfiguration |-> <<>>]>>

(***************************************************************************)
(* Shutdown: one replica, its proposers and consumers, and the callers of  *)
(* Stop.                                                                   *)
(***************************************************************************)
InitStop ==
    /\ Opened({1})
    /\ st = IdleStorage
    /\ pe = IdleEncoding
    /\ vrf = IdleVRF
    /\ ks = IdleKeyserver

NextStop ==
    \/ \E n \in nodes : Start(n)
    \/ \E n \in nodes : Propose(n)
    \/ \E n \in nodes : LoopStop(n)
    \/ \E n \in nodes : LoopTick(n)
    \/ \E n \in nodes : LoopReady(n)
    \/ \E n \in nodes : LoopDeliver(n)
    \/ \E n \in nodes : LoopAdvance(n)
    \/ \E n \in nodes : LoopHint(n)
    \/ \E n \in nodes : Consume(n)
    \/ \E n \in nodes : ConsumeHint(n)
    \/ \E c \in Callers, n \in nodes : StopCall(c, n)
    \/ \E c \in Callers : StopLock(c)
    \/ \E c \in Callers : StopWait(c)

SpecStop == InitStop /\ [][NextStop]_vars

\* C6: idempotent shutdown. However many calls of Stop there are, one after
\* the other or at the same time, the stop channel is closed once (by the
\* one call that runs the shutdown, never a second time), no call fails on
\* it, and a call made after a call has completed returns at once and
\* does nothing.
C6_IdempotentStop ==
    \A n \in nodes :
        /\ stopCloses[n] <= 1
        /\ stopCloses[n] = Cardinality({c \in Callers : callers[c].node = n /\ callers[c].ran})
        /\ stop[n] <=> stopCloses[n] = 1
        /\ fault[n] # "close of closed channel"
        /\ \A c \in Callers :
              (callers[c].node = n /\ callers[c].late) =>
                  callers[c].pc = "returned" /\ ~callers[c].ran

\* two calls of Stop at the same time have both returned: one closed the
\* channel, the other went through the mutex and did nothing
C6_Witness ==
    \E c, c2 \in Callers :
        /\ callers[c].pc = "returned" /\ callers[c].ran
        /\ callers[c2].pc = "returned" /\ ~callers[c2].ran /\ ~callers[c2].late
        /\ callers[c2].node = callers[c].node

\* the run loop of a replica waits to put an entry on waitCommitted or a
\* value on leaderHintSet and cannot: the channel is full
LoopBlocked(n) ==
    \/ pc[n] = "deliver" /\ ~ENABLED (LoopDeliver(n) \/ LoopAdvance(n))
    \/ pc[n] = "hint" /\ ~ENABLED LoopHint(n)

\* C7: shutdown completes. A call of Stop on a running replica does not get
\* stuck behind the run loop: while a call of Stop is in progress the loop is
\* not blocked on waitCommitted or leaderHintSet, which nobody may be
\* draining.
C7_ShutdownCompletes ==
    \A c \in Callers :
        callers[c].pc \in {"lock", "wait"} => ~LoopBlocked(callers[c].node)

(***************************************************************************)
(* The lifecycle: one replica and callers that call Start, Propose and     *)
(* Stop in any order and any number of times; nobody reads its channels.   *)
(***************************************************************************)
NextLife ==
    \/ \E n \in nodes : Start(n)
    \/ \E n \in nodes, lo \in 0..1 : Restart(n, lo)
    \/ \E n \in nodes, lo \in 0..1 : StartStale(n, lo)
    \/ \E n \in nodes : ProposeUnstarted(n)
    \/ \E n \in nodes : Propose(n)
    \/ \E n \in nodes : LoopStop(n)
    \/ \E n \in nodes : LoopTick(n)
    \/ \E n \in nodes : LoopReady(n)
    \/ \E n \in nodes : LoopDeliver(n)
    \/ \E n \in nodes : LoopAdvance(n)
    \/ \E n \in nodes : LoopHint(n)
    \/ \E c \in Callers, n \in nodes : StopCall(c, n)
    \/ \E c \in Callers : StopLock(c)
    \/ \E c \in Callers : StopWait(c)

SpecLife == InitStop /\ [][NextLife]_vars

\* the state of the replicator's lifecycle at a position of its run loop
Phase(p) ==
    IF p = "unstarted" THEN "unstarted"
    ELSE IF p = "exited" THEN "stopped"
    ELSE IF p = "panicked" THEN "panicked"
    ELSE "running"

\* C13: the replicator's lifecycle is unstarted -> running -> stopped and
\* nothing else (but for the end of the process in a panic): no step starts
\* a second run loop beside a running one, no step takes a stopped
\* replicator back to running, and the engine takes a proposal only while the
\* replicator is running.
C13_Lifecycle ==
    [][\A n \in nodes :
          /\ pc'[n] # "doubled"
          /\ Phase(pc[n]) # Phase(pc'[n]) =>
                <<Phase(pc[n]), Phase(pc'[n])>> \in
                    {<<"unstarted", "running">>, <<"running", "stopped">>,
                     <<"unstarted", "panicked">>, <<"running", "panicked">>}
          /\ proposed'[n] # proposed[n] => Phase(pc[n]) = "running"]_vars

\* a step is a Start that returned on storage that was not initialized
StartedFresh(n) == pc[n] = "unstarted" /\ pc'[n] = "select"

\* a step is a Start on storage that was initialized
StartedAgain(n) ==
    \/ pc[n] = "exited" /\ pc'[n] = "select"
    \/ pc[n] # "doubled" /\ pc'[n] = "doubled"

\* what Start does but for the index of the dummy entry
StartsAsConfigured(n) ==
    /\ StartedFresh(n) =>
          /\ ~IsInitialized(db[n])
          /\ IsInitialized(db'[n])
          /\ Len(StoredLog(db'[n])) = 1
          /\ eng'[n] = StartNode(n, SetToSeq(nodes))
    /\ StartedAgain(n) =>
          /\ IsInitialized(db[n])
          /\ db'[n] = db[n]
          /\ eng'[n].applied = steps'[n].lo
          /\ eng'[n] = RestartNode(n, db[n], SetToSeq(nodes), steps'[n].lo)

\* C21: initialisation. On storage that is not initialized Start(0) saves
\* one dummy entry, the zero entry, whose index is 0 (the slot below
\* FirstIndex = 1), and starts the engine with the configured peers, after
\* which the storage is initialized; on initialized storage Start(lo) writes
\* nothing and restarts the engine with applied = lo.
C21_Initialisation ==
    [][\A n \in nodes :
          /\ StartsAsConfigured(n)
          /\ StartedFresh(n) =>
                /\ StoredLog(db'[n]) = <<ZeroEntry>>
                /\ StoredLog(db'[n])[1].Index = 0
                /\ LastIndex(db'[n]) = 0]_vars

\* C21 as it was stated: the dummy entry of Start is at log index 1.
C21_DummyAtIndexOne ==
    [][\A n \in nodes :
          /\ StartsAsConfigured(n)
          /\ StartedFresh(n) =>
                /\ StoredLog(db'[n])[1].Index = 1
                /\ LastIndex(db'[n]) = 1]_vars

\* a replicator was started on fresh storage, stopped, and started again
\* with the watermark 1 on the storage it had initialized and written to
C21_Witness ==
    \E n \in nodes :
        /\ pc[n] = "select"
        /\ stopped[n]
        /\ steps[n].lo = 1
        /\ eng[n].applied = 1
        /\ LastIndex(db[n]) >= 1

(***************************************************************************)
(* The run loop of one replica under any engine: the ready batches are any *)
(* batches a raft.Node may offer, with or without a soft-state update, a   *)
(* HardState, entries, committed entries, messages and a snapshot.         *)
(***************************************************************************)
SoftStates ==
    {NilSoftState, [Lead |-> 1, RaftState |-> StateLeader],
     [Lead |-> 2, RaftState |-> StateFollower]}

\* the batches the engine of replica n may offer next: what is not empty in
\* them carries the number of the batch as its term, and a configuration
\* change adds the node after n, which is not an initial node
ReadyBatches(n) ==
    LET term == steps[n].reads + 1
        last == LastIndex(db[n])
        next == Len(batches[n]) + 1
        normal(i) == [Type |-> EntryNormal, Term |-> term, Index |-> i, Data |-> <<term>>]
        change(i) == [Type |-> EntryConfChange, Term |-> term, Index |-> i,
                      Data |-> ConfChangeMarshal(n + 1)]
    IN {r \in [SoftState : SoftStates,
               HardState : {EmptyHardState, [Term |-> term, Vote |-> n, Commit |-> last]},
               Entries : {<<>>, <<normal(last + 1)>>},
               CommittedEntries : {<<>>, <<normal(next)>>, <<change(next), normal(next + 1)>>},
               Messages : {<<>>, <<[Type |-> "MsgApp", From |-> n, To |-> 2, Term |-> term]>>},
               Snapshot : {EmptySnapshot, [Index |-> 1, Term |-> 1]}] :
           ContainsUpdates(r) \/ r.Snapshot # EmptySnapshot}

\* case rd := <-l.node.Ready(), with the batch r
LoopReadyOf(n, r) ==
    /\ pc[n] = "select"
    /\ ~eng[n].advancing
    /\ steps[n].reads < MaxReads
    /\ ReadBatch(n, r)

InitLoop ==
    /\ Opened({1})
    /\ st = IdleStorage
    /\ pe = IdleEncoding
    /\ vrf = IdleVRF
    /\ ks = IdleKeyserver

NextLoop ==
    \/ \E n \in nodes : Start(n)
    \/ \E n \in nodes : \E r \in ReadyBatches(n) : LoopReadyOf(n, r)
    \/ \E n \in nodes : LoopSend(n)
    \/ \E n \in nodes : LoopDeliver(n)
    \/ \E n \in nodes : LoopAdvance(n)
    \/ \E n \in nodes : LoopHint(n)

SpecLoop == InitLoop /\ [][NextLoop]_vars

\* C17: the persisted HardState never regresses. Whatever batches the run
\* loop has saved, the HardState in the store is the most recent HardState
\* the engine emitted that was not empty: a batch with an empty HardState
\* (no update) leaves the stored term, vote and commit index as they are.
C17_HardStateKept ==
    \A n \in nodes :
        (steps[n].saved /\ steps[n].hard # EmptyHardState) =>
            StoredHardState(db[n]) = steps[n].hard

\* how many of the first k entries of a sequence are configuration changes
ConfChanges(es, k) == Cardinality({i \in 1..k : es[i].Type = EntryConfChange})

\* step (1) of a batch: a snapshot is refused before anything is written
SnapshotFirst(n) ==
    fault[n] = "snapshots not supported" =>
        /\ ~steps[n].saved
        /\ rd[n].HardState # EmptyHardState => StoredHardState(db[n]) # rd[n].HardState
        /\ rd[n].Entries # <<>> => LastIndex(db[n]) < rd[n].Entries[1].Index
        /\ steps[n].applied = 0 /\ steps[n].advances = 0

\* step (2): wherever a message is dispatched or an entry delivered, the
\* HardState and the entries of the batch are in the store
SaveBeforeUse(n) ==
    (pc[n] \in {"send", "deliver", "hint"}
       \/ fault[n] \in {"assignment to entry in nil map", "nil pointer dereference"}) =>
        /\ steps[n].saved
        /\ StoredHardState(db[n]) = rd[n].HardState
        /\ \A i \in 1..Len(rd[n].Entries) :
              \E j \in 1..Len(StoredLog(db[n])) : StoredLog(db[n])[j] = rd[n].Entries[i]

\* step (3): ApplyConfChange was called for every configuration change that
\* was delivered, and for no other entry
ApplyBeforeDeliver(n) ==
    steps[n].saved => steps[n].applied = ConfChanges(rd[n].CommittedEntries, idx[n])

\* step (4): Advance is called once for a batch, after the last of its
\* committed entries was put on waitCommitted, and no batch is left without
AdvanceOnce(n) ==
    /\ steps[n].advances <= 1
    /\ steps[n].advances = 1 => idx[n] = Len(rd[n].CommittedEntries)
    /\ (pc[n] \in {"hint", "select"} /\ steps[n].reads > 0) => steps[n].advances = 1
    /\ (steps[n].saved /\ rd[n].Messages = <<>> /\ idx[n] = Len(rd[n].CommittedEntries)
          /\ pc[n] # "deliver") => steps[n].advances = 1

\* C18: the order of the steps of a ready batch. For every batch the loop
\* (1) refuses a snapshot before writing anything, (2) completes storage.save
\* before a message of the batch is dispatched or a committed entry of it
\* delivered, (3) calls ApplyConfChange for a configuration change before
\* delivering it, and (4) calls Advance exactly once, after all committed
\* entries of the batch were put on waitCommitted.
C18_StepOrder ==
    \A n \in nodes :
        SnapshotFirst(n) /\ SaveBeforeUse(n) /\ ApplyBeforeDeliver(n) /\ AdvanceOnce(n)

\* C19: the leader hint is published on change only and in order. The
\* values sent on leaderHintSet alternate, the first being true, the last is
\* the leader bit the loop remembers, and a batch without a soft-state
\* update publishes nothing and is processed without failure.
C19_HintOnChange ==
    \A n \in nodes :
        /\ \A i \in 1..Len(hints[n]) : hints[n][i] = (i % 2 = 1)
        /\ pc[n] # "panicked" =>
              leaderHint[n] = (hints[n] # <<>> /\ hints[n][Len(hints[n])])
        /\ (steps[n].saved /\ rd[n].SoftState = NilSoftState /\ rd[n].Messages = <<>>) =>
              pc[n] # "panicked"

\* C20: a message that cannot be sent is never fatal. A dial that fails is
\* reported with ReportUnreachable of the peer, and the run loop goes on:
\* the first send to a peer without a cached client does not end it.
C20_SendNeverFatal ==
    \A n \in nodes :
        /\ fault[n] # "assignment to entry in nil map"
        /\ (steps[n].saved /\ rd[n].Messages # <<>>) => pc[n] # "panicked"

(***************************************************************************)
(* One replica with its engine, and a caller of GetCommitted.              *)
(***************************************************************************)
\* GetCommitted(lo, hi, maxSize) on a started replicator
GetCommittedCall(n, lo, hi, maxSize) ==
    /\ Alive(n)
    /\ steps[n].got.calls < MaxGets
    /\ steps' = [steps EXCEPT ![n].got =
                    [calls |-> @.calls + 1, lo |-> lo, commit |-> eng[n].commit,
                     ret |-> GetCommitted(db[n], lo, hi, maxSize)]]
    /\ UNCHANGED <<nodes, loopVars, db, eng, chanVars, grpcClientCache, stopVars,
                   emitted, batches, hints, proposed, st, pe, vrf, ks>>

NextGet ==
    \/ \E n \in nodes : Start(n)
    \/ \E n \in nodes : Propose(n)
    \/ \E n \in nodes : LoopTick(n)
    \/ \E n \in nodes : LoopReady(n)
    \/ \E n \in nodes : LoopDeliver(n)
    \/ \E n \in nodes : LoopAdvance(n)
    \/ \E n \in nodes : LoopHint(n)
    \/ \E n \in nodes, lo \in 1..2, hi \in 2..3, maxSize \in {0, NoLimit} :
          GetCommittedCall(n, lo, hi, maxSize)

SpecGet == InitLoop /\ [][NextGet]_vars

\* C26: GetCommitted returns only committed entries. Every entry of its
\* result has an index that is not above the engine's commit index, and is
\* the LogEntry that is delivered on waitCommitted for that index: a
\* configuration change is not returned as Data.
C26_GetCommittedDelivered ==
    \A n \in nodes :
        \A k \in 1..Len(steps[n].got.ret) :
            LET i == steps[n].got.lo + k - 1
            IN /\ i <= steps[n].got.commit
               /\ i <= Len(emitted[n]) => steps[n].got.ret[k] = emitted[n][i]

(***************************************************************************)
(* The same run loop in a process that may end and be followed by another  *)
(* that opens the replicator on the storage the first one wrote.           *)
(***************************************************************************)
\* the process of replica n ends, in a panic or killed between two batches,
\* and the next one calls Open with the same configuration and Start(lo)
Reopen(n, lo) ==
    /\ pc[n] \in {"select", "panicked"}
    /\ steps[n].opens < MaxOpens
    /\ IsInitialized(db[n])
    /\ lo <= StoredHardState(db[n]).Commit
    /\ eng' = [eng EXCEPT ![n] = RestartNode(n, db[n], SetToSeq(nodes), lo)]
    /\ pc' = [pc EXCEPT ![n] = "select"]
    /\ rd' = [rd EXCEPT ![n] = NoReady]
    /\ idx' = [idx EXCEPT ![n] = 0]
    /\ fault' = [fault EXCEPT ![n] = Nil]
    /\ waitCommitted' = [waitCommitted EXCEPT ![n] = OpenChan]
    /\ leaderHintSet' = [leaderHintSet EXCEPT ![n] = OpenChan]
    /\ leaderHint' = [leaderHint EXCEPT ![n] = FALSE]
    /\ steps' = [steps EXCEPT ![n].opens = @ + 1, ![n].lo = lo, ![n].saved = FALSE,
                              ![n].applied = 0, ![n].advances = 0]
    /\ UNCHANGED <<nodes, db, grpcClientCache, stopVars, emitted, batches, hints,
                   proposed, st, pe, vrf, ks>>

NextReopen ==
    \/ NextLoop
    \/ \E n \in nodes, lo \in 0..1 : Reopen(n, lo)

SpecReopen == InitLoop /\ [][NextReopen]_vars

RECURSIVE ApplyAll(_, _)
\* the membership a sequence of added nodes makes of a membership
ApplyAll(peers, ids) ==
    IF ids = <<>> THEN peers
    ELSE ApplyAll(ApplyConfChange(peers, Head(ids)), Tail(ids))

\* C24: the persisted membership follows the configuration changes. Once
\* the run loop has applied committed configuration changes and the
\* replicator was started again on the same storage, InitialState returns
\* the membership that includes the changes, which is the membership the
\* restarted engine has.
C24_MembershipPersisted ==
    \A n \in nodes :
        steps[n].opens > 1 =>
            /\ InitialState(db[n], SetToSeq(nodes)).confState =
                  ApplyAll(SetToSeq(nodes), steps[n].changes)
            /\ steps[n].reads = 0 =>
                  eng[n].peers = ApplyAll(SetToSeq(nodes), steps[n].changes)

(***************************************************************************)
(* The storage on its own: the dummy save of Start, then the saves of the  *)
(* run loop with batches of consecutive indices, and reads of the log.     *)
(***************************************************************************)
\* Start on fresh storage: save(hardState, make([]raftpb.Entry, 1))
StStart ==
    /\ ~IsInitialized(st.db)
    /\ LET hardState == InitialState(st.db, <<>>).hardState
           res == save(st.db, hardState, <<ZeroEntry>>)
       IN st' = [st EXCEPT !.db = res.db, !.saved = Append(@, <<ZeroEntry>>),
                           !.read = FALSE, !.prev = st.db, !.hs = hardState,
                           !.es = <<ZeroEntry>>, !.call = NoCall, !.ret = NoReturn]
    /\ UNCHANGED <<clusterVars, pe, vrf, ks>>

\* the k-th save of the run loop: l entries from index first on, of term k
\* and with the data k; a gap in the log is fatal
StSave(first, l) ==
    /\ IsInitialized(st.db)
    /\ ~st.fatal
    /\ Len(st.saved) <= MaxSaves
    /\ LET k == Len(st.saved)
           entries == [j \in 1..l |-> [Type |-> EntryNormal, Term |-> k,
                                       Index |-> first + j - 1, Data |-> <<k>>]]
           hs == [Term |-> k, Vote |-> None, Commit |-> 0]
           res == save(st.db, hs, entries)
       IN st' = IF res.panic
                THEN [st EXCEPT !.db = res.db, !.fatal = TRUE, !.read = FALSE,
                                !.prev = st.db, !.hs = hs, !.es = entries,
                                !.call = NoCall, !.ret = NoReturn]
                ELSE [st EXCEPT !.db = res.db, !.saved = Append(@, entries),
                                !.read = FALSE, !.prev = st.db, !.hs = hs,
                                !.es = entries, !.call = NoCall, !.ret = NoReturn]
    /\ UNCHANGED <<clusterVars, pe, vrf, ks>>

\* Entries(FirstIndex, LastIndex+1, unbounded)
StEntries ==
    /\ ~st.fatal
    /\ ~st.read
    /\ st' = [st EXCEPT !.out = Entries(st.db, FirstIndex, LastIndex(st.db) + 1, NoLimit),
                        !.read = TRUE]
    /\ UNCHANGED <<clusterVars, pe, vrf, ks>>

\* The reads below leave the store as it is: a read that follows another
\* finds what a first read finds, and the model takes each as a first read.
\* the maxSize arguments: nothing, the dummy entry and an entry of a save,
\* two entries of a save, or no limit
MaxSizes == {0, 17, 18, NoLimit}

\* Entries(lo, hi, maxSize)
StEntriesOf(lo, hi, maxSize) ==
    /\ ~st.fatal
    /\ st.call = NoCall
    /\ st' = [st EXCEPT !.call = [NoCall EXCEPT !.op = "Entries", !.lo = lo, !.hi = hi,
                                                !.maxSize = maxSize],
                        !.ret = [NoReturn EXCEPT !.entries = Entries(st.db, lo, hi, maxSize)]]
    /\ UNCHANGED <<clusterVars, pe, vrf, ks>>

\* Term(i)
StTerm(i) ==
    /\ ~st.fatal
    /\ st.call = NoCall
    /\ st' = [st EXCEPT !.call = [NoCall EXCEPT !.op = "Term", !.lo = i],
                        !.ret = [NoReturn EXCEPT !.term = Term(st.db, i).term,
                                                 !.panic = Term(st.db, i).panic]]
    /\ UNCHANGED <<clusterVars, pe, vrf, ks>>

\* InitialState() of a storage opened with the initial membership conf
StInitialState(conf) ==
    /\ ~st.fatal
    /\ st.call = NoCall
    /\ LET r == InitialState(st.db, conf)
       IN st' = [st EXCEPT !.call = [NoCall EXCEPT !.op = "InitialState", !.conf = conf],
                           !.ret = [NoReturn EXCEPT !.hardState = r.hardState,
                                                    !.confState = r.confState,
                                                    !.err = r.err]]
    /\ UNCHANGED <<clusterVars, pe, vrf, ks>>

InitStorage ==
    /\ Opened({})
    /\ st = IdleStorage
    /\ pe = IdleEncoding
    /\ vrf = IdleVRF
    /\ ks = IdleKeyserver

NextStorage ==
    \/ StStart
    \/ \E first \in 1..(LastIndex(st.db) + 2), l \in 0..MaxBatch : StSave(first, l)
    \/ StEntries
    \/ \E lo \in 0..2, hi \in {1, 3, LastIndex(st.db) + 1}, maxSize \in MaxSizes :
          StEntriesOf(lo, hi, maxSize)
    \/ \E i \in 0..(LastIndex(st.db) + 1) : StTerm(i)
    \/ \E conf \in {<<1>>, <<1, 2>>} : StInitialState(conf)

SpecStorage == InitStorage /\ [][NextStorage]_vars

RECURSIVE LogAfter(_)
\* the log a history of saved batches leaves: a batch replaces what was
\* stored from its first index on
LogAfter(saves) ==
    IF saves = <<>> THEN <<>>
    ELSE LET prev == LogAfter(SubSeq(saves, 1, Len(saves) - 1))
             es == saves[Len(saves)]
         IN IF es = <<>> THEN prev
            ELSE SelectSeq(prev, LAMBDA e : e.Index < es[1].Index) \o es

\* C5: storage round trip. After any sequence of successful saves,
\* Entries(FirstIndex, LastIndex+1, unbounded) returns exactly the entries
\* the saves left in the log from FirstIndex on (the slot below FirstIndex
\* holds the sentinel), in increasing index order, with their term, index
\* and data.
C5_StorageRoundTrip ==
    st.read =>
        st.out = SelectSeq(LogAfter(st.saved), LAMBDA e : e.Index >= FirstIndex)

\* Entries was called after a save that replaced a stored tail by a shorter
\* one, and returned entries of two saves
C5_Witness ==
    /\ st.read
    /\ Len(st.out) >= 2
    /\ st.out[1].Term # st.out[Len(st.out)].Term
    /\ \E i \in 1..(Len(st.saved) - 1) :
          /\ st.saved[i] # <<>>
          /\ st.saved[Len(st.saved)] # <<>>
          /\ st.saved[i][Len(st.saved[i])].Index >
                st.saved[Len(st.saved)][Len(st.saved[Len(st.saved)])].Index

\* C15: save truncates and appends. After a save(hs, es) that returned, with
\* es not empty (and es[0].Index <= LastIndex+1), the log holds exactly the
\* entries stored before with an index below es[0].Index, followed by es:
\* every old entry from es[0].Index on is gone, also beyond the last index of
\* es, and LastIndex is the index of the last entry of es.
C15_SaveTruncatesAndAppends ==
    (st.es # <<>> /\ ~st.fatal) =>
        /\ StoredLog(st.db) =
              SelectSeq(StoredLog(st.prev), LAMBDA e : e.Index < st.es[1].Index) \o st.es
        /\ LastIndex(st.db) = st.es[Len(st.es)].Index

\* a save replaced a stored tail by a shorter one: entries were stored beyond
\* the last index of the batch, and entries below its first index were kept
C15_Witness ==
    /\ st.es # <<>>
    /\ ~st.fatal
    /\ LastIndex(st.prev) > st.es[Len(st.es)].Index
    /\ st.es[1].Index > FirstIndex
    /\ Len(st.es) >= 2
    /\ Len(StoredLog(st.db)) < Len(StoredLog(st.prev))

\* C16: save with a log gap. When es is not empty and es[0].Index is above
\* LastIndex+1, save fails fatally and nothing of the call is written: the
\* stored HardState and every stored entry are as before the call.
C16_GapWritesNothing ==
    st.fatal =>
        /\ st.es # <<>>
        /\ st.es[1].Index > LastIndex(st.prev) + 1
        /\ st.db = st.prev
        /\ InitialState(st.db, <<>>).hardState = InitialState(st.prev, <<>>).hardState
        /\ StoredLog(st.db) = StoredLog(st.prev)

\* a save with a gap was refused on a store that holds entries of two
\* batches and a HardState other than that of the refused call
C16_Witness ==
    /\ st.fatal
    /\ Len(st.saved) >= 3
    /\ Len(StoredLog(st.prev)) >= 3
    /\ InitialState(st.prev, <<>>).hardState # st.hs
    /\ Len(st.es) >= 2

RECURSIVE TotalSize(_)
\* the serialised size of a sequence of entries
TotalSize(es) == IF es = <<>> THEN 0 ELSE EntrySize(Head(es)) + TotalSize(Tail(es))

\* the stored entries with lo <= index < hi, in index order
InRange(store, lo, hi) ==
    SelectSeq(StoredLog(store), LAMBDA e : lo <= e.Index /\ e.Index < hi)

\* C22: Entries(lo, hi, maxSize) returns, in increasing index order, a
\* prefix of the stored entries with lo <= index < hi; the result is not
\* empty when the range holds an entry, whatever maxSize; a result of more
\* than one entry has a total serialised size of at most maxSize; and the
\* result ends only at the end of the range or before the first entry that
\* would take the total above maxSize.
C22_EntriesPrefix ==
    st.call.op = "Entries" =>
        LET all == InRange(st.db, st.call.lo, st.call.hi)
            r == st.ret.entries
        IN /\ Len(r) <= Len(all)
           /\ r = SubSeq(all, 1, Len(r))
           /\ \A i \in 1..(Len(r) - 1) : r[i].Index < r[i + 1].Index
           /\ all # <<>> => r # <<>>
           /\ Len(r) > 1 => TotalSize(r) <= st.call.maxSize
           /\ Len(r) < Len(all) =>
                 TotalSize(r) + EntrySize(all[Len(r) + 1]) > st.call.maxSize

\* Entries with a maxSize that two entries fit and three do not returned
\* the first two of the three entries of its range
C22_Witness ==
    /\ st.call.op = "Entries"
    /\ Len(InRange(st.db, st.call.lo, st.call.hi)) >= 3
    /\ Len(st.ret.entries) = 2
    /\ st.call.maxSize >= TotalSize(st.ret.entries)

\* C23: InitialState returns the HardState the last save wrote, the zero
\* HardState when the HardState key is absent, and, no ConfState being
\* stored, exactly the initial membership the storage was opened with; an
\* absent HardState or ConfState key is no error.
C23_InitialState ==
    st.call.op = "InitialState" =>
        /\ st.ret.err = Nil
        /\ st.ret.hardState = (IF IsInitialized(st.db) THEN st.hs ELSE EmptyHardState)
        /\ DBGet(st.db, confStateKey) = NotFound => st.ret.confState = st.call.conf

\* InitialState was called with two initial nodes after a save of the run
\* loop, with no ConfState in the store, and returned that save's HardState
C23_Witness ==
    /\ st.call.op = "InitialState"
    /\ Len(st.call.conf) = 2
    /\ Len(st.saved) >= 2
    /\ st.ret.hardState # EmptyHardState
    /\ DBGet(st.db, confStateKey) = NotFound

\* C25: log contiguity. After Start on fresh storage and any saves that
\* returned, of batches of consecutive indices, the stored indices are the
\* range from the sentinel at FirstIndex-1 to LastIndex, one entry each, so
\* that Term(i) is the term of that entry, without a panic, for every i with
\* FirstIndex-1 <= i <= LastIndex; and FirstIndex <= LastIndex+1.
C25_LogContiguous ==
    IsInitialized(st.db) =>
        /\ Len(StoredLog(st.db)) = LastIndex(st.db) + 1
        /\ \A k \in 1..Len(StoredLog(st.db)) :
              StoredLog(st.db)[k].Index = FirstIndex - 1 + k - 1
        /\ FirstIndex <= LastIndex(st.db) + 1
        /\ \A i \in (FirstIndex - 1)..LastIndex(st.db) :
              Term(st.db, i) = [term |-> StoredLog(st.db)[i + 1].Term, panic |-> FALSE]
        /\ (st.call.op = "Term" /\ FirstIndex - 1 <= st.call.lo
              /\ st.call.lo <= LastIndex(st.db)) =>
                 /\ ~st.ret.panic
                 /\ st.ret.term = StoredLog(st.db)[st.call.lo + 1].Term

\* Term was called for the last index of a log that two saves wrote, the
\* second of them over a part of the first, and returned the second's term
C25_Witness ==
    /\ st.call.op = "Term"
    /\ st.call.lo = LastIndex(st.db)
    /\ st.call.lo >= 2
    /\ ~st.ret.panic
    /\ st.ret.term >= 2
    /\ Term(st.db, 1).term = 1

(***************************************************************************)
(* A wrapper and its caller: Unmarshal from the caller's buffer, which the *)
(* caller then overwrites, and Marshal; or a generated wrapper, marshalled *)
(* and decoded again.                                                      *)
(***************************************************************************)
Alphabet == {0, 1, 10, 18, 26, 34, 40}

Inputs == UNION {[1..n -> Alphabet] : n \in 0..MaxLen}

EncUnmarshal(data) ==
    /\ pe.phase = "new"
    /\ LET r == Unmarshal(ZeroWrapper, data)
       IN pe' = [pe EXCEPT !.phase = IF r.err THEN "rejected" ELSE "decoded",
                           !.given = data, !.buf = data, !.w = r.m]
    /\ UNCHANGED <<clusterVars, st, vrf, ks>>

\* the caller reuses its buffer
EncOverwrite(i, v) ==
    /\ pe.phase = "decoded"
    /\ pe.buf = pe.given
    /\ i \in 1..Len(pe.buf)
    /\ pe.buf[i] # v
    /\ pe' = [pe EXCEPT !.buf[i] = v]
    /\ UNCHANGED <<clusterVars, st, vrf, ks>>

EncMarshal ==
    /\ pe.phase \in {"decoded", "populated"}
    /\ pe' = [pe EXCEPT !.phase = IF pe.phase = "decoded" THEN "marshalled" ELSE "encoded",
                        !.out = Marshal(pe.w, pe.buf),
                        !.size = Size(pe.w, pe.buf)]
    /\ UNCHANGED <<clusterVars, st, vrf, ks>>

EncNewPopulated(v) ==
    /\ pe.phase = "new"
    /\ pe' = [pe EXCEPT !.phase = "populated",
                        !.w = NewPopulatedSignedEntryUpdate_PreserveEncoding(v),
                        !.gen = NewPopulatedSignedEntryUpdate_PreserveEncoding(v)]
    /\ UNCHANGED <<clusterVars, st, vrf, ks>>

\* the bytes of the generated wrapper are decoded and marshalled again
EncDecode ==
    /\ pe.phase = "encoded"
    /\ LET r == Unmarshal(ZeroWrapper, pe.out)
       IN pe' = [pe EXCEPT !.phase = "done", !.err = r.err, !.back = r.m,
                           !.out2 = Marshal(r.m, pe.out)]
    /\ UNCHANGED <<clusterVars, st, vrf, ks>>

InitEnc ==
    /\ Opened({})
    /\ st = IdleStorage
    /\ pe = [IdleEncoding EXCEPT !.phase = "new"]
    /\ vrf = IdleVRF
    /\ ks = IdleKeyserver

NextEnc ==
    \/ \E data \in Inputs : EncUnmarshal(data)
    \/ \E i \in 1..MaxLen, v \in Alphabet : EncOverwrite(i, v)
    \/ EncMarshal
    \/ \E v \in NewPopulatedSignedEntryUpdate : EncNewPopulated(v)
    \/ EncDecode

SpecEnc == InitEnc /\ [][NextEnc]_vars

\* C8: preserved encoding, bytes to bytes. For every byte string Unmarshal
\* accepts, a following Marshal returns exactly that byte string and Size
\* its length, whatever the serialisation of the decoded view would be and
\* whatever the caller has since written into the buffer it passed.
C8_PreservedBytes ==
    pe.phase = "marshalled" => pe.out = pe.given /\ pe.size = Len(pe.given)

\* Marshal ran on bytes that are not the serialisation of their decoded
\* view, after the caller overwrote its buffer
C8_Witness ==
    /\ pe.phase = "marshalled"
    /\ pe.buf # pe.given
    /\ Len(pe.given) >= 2
    /\ SignedEntryUpdateMarshal(pe.w.SignedEntryUpdate) # pe.given

\* C9: encoding preservation, value to value. For every wrapper w the
\* generator returns, decoding Marshal(w) succeeds and yields a wrapper
\* Equal to w (on the decoded view) whose Marshal is byte for byte
\* Marshal(w).
C9_ValueRoundTrip ==
    pe.phase = "done" =>
        /\ ~pe.err
        /\ Equal(pe.back, pe.gen)
        /\ pe.out2 = pe.out

\* a generated wrapper with an empty signature and a profile went round: the
\* decoded signature is nil
C9_Witness ==
    /\ pe.phase = "done"
    /\ pe.gen.SignedEntryUpdate.NewSig = SomeBytes(<<>>)
    /\ pe.back.SignedEntryUpdate.NewSig = NilBytes
    /\ ~pe.gen.SignedEntryUpdate.Profile.null
    /\ Len(pe.out) > 2

(***************************************************************************)
(* A wrapper whose decoded view is changed: it is marshalled as it is, or  *)
(* after UpdateEncoding, or after Reset.                                   *)
(***************************************************************************)
\* the byte strings handed to Unmarshal here
ViewInputs == {data \in Inputs : Len(data) <= MaxLen - 1}

\* m.SignedEntryUpdate = v: the caller writes the decoded view
ViewChange(v) ==
    /\ pe.phase \in {"decoded", "populated"}
    /\ v # pe.w.SignedEntryUpdate
    /\ pe' = [pe EXCEPT !.phase = "changed", !.gen = pe.w, !.w.SignedEntryUpdate = v]
    /\ UNCHANGED <<clusterVars, st, vrf, ks>>

\* m.UpdateEncoding()
ViewUpdateEncoding ==
    /\ pe.phase = "changed"
    /\ pe' = [pe EXCEPT !.phase = "updated", !.w = UpdateEncoding(pe.w)]
    /\ UNCHANGED <<clusterVars, st, vrf, ks>>

\* m.Reset()
ViewReset ==
    /\ pe.phase \in {"decoded", "populated", "changed", "updated"}
    /\ pe' = [pe EXCEPT !.phase = "reset", !.w = Reset(pe.w)]
    /\ UNCHANGED <<clusterVars, st, vrf, ks>>

\* m.Marshal() and m.Size()
ViewMarshal ==
    /\ pe.phase \in {"changed", "updated", "reset"}
    /\ pe' = [pe EXCEPT !.phase = IF pe.phase = "changed" THEN "changed, marshalled"
                                  ELSE IF pe.phase = "updated" THEN "updated, marshalled"
                                  ELSE "reset, marshalled",
                        !.out = Marshal(pe.w, pe.buf),
                        !.size = Size(pe.w, pe.buf)]
    /\ UNCHANGED <<clusterVars, st, vrf, ks>>

NextView ==
    \/ \E data \in ViewInputs : EncUnmarshal(data)
    \/ \E v \in NewPopulatedSignedEntryUpdate : EncNewPopulated(v)
    \/ \E v \in NewPopulatedSignedEntryUpdate : ViewChange(v)
    \/ ViewUpdateEncoding
    \/ ViewReset
    \/ ViewMarshal

SpecView == InitEnc /\ [][NextView]_vars

\* C27: explicit re-encoding only. A change of the decoded view without a
\* call of UpdateEncoding leaves Marshal and Size as they were: the
\* preserved bytes and their length. After UpdateEncoding, Marshal returns
\* the serialisation of the decoded view as it is now. Reset clears the
\* decoded view and the preserved bytes.
C27_ExplicitReencoding ==
    /\ pe.phase = "changed" => pe.w.PreservedEncoding = pe.gen.PreservedEncoding
    /\ pe.phase = "changed, marshalled" =>
          /\ pe.out = pe.gen.PreservedEncoding.b
          /\ pe.size = Len(pe.gen.PreservedEncoding.b)
    /\ pe.phase = "updated, marshalled" =>
          /\ pe.out = SignedEntryUpdateMarshal(pe.w.SignedEntryUpdate)
          /\ pe.size = Len(pe.out)
    /\ pe.phase \in {"reset", "reset, marshalled"} =>
          /\ pe.w.SignedEntryUpdate = ZeroSignedEntryUpdate
          /\ pe.w.PreservedEncoding.b = <<>>
    /\ pe.phase = "reset, marshalled" => pe.out = <<>> /\ pe.size = 0

\* a wrapper decoded from bytes was given another decoded view and
\* UpdateEncoding: Marshal returned other bytes than were decoded
C27_Witness ==
    /\ pe.phase = "updated, marshalled"
    /\ pe.given # <<>>
    /\ pe.out # pe.given
    /\ pe.out # pe.gen.PreservedEncoding.b
    /\ Len(pe.out) > 2

(***************************************************************************)
(* The ECVRF on a key pair of ed25519.GenerateKey: a proof of a message is *)
(* made and verified.                                                      *)
(***************************************************************************)
Seeds == {<<i, 2 * i + 1>> : i \in 0..(MaxSeed - 1)}
Messages == {<<>>} \cup {<<b>> : b \in 0..(MaxMsg - 1)}

\* pk, sk := ed25519.GenerateKey() on the seed it read
VrfGenerateKey(seed) ==
    /\ vrf.phase = "idle"
    /\ LET key == GenerateKey(seed)
       IN vrf' = [vrf EXCEPT !.phase = "keyed", !.pk = key.pub, !.sk = key.priv]
    /\ UNCHANGED <<clusterVars, st, pe, ks>>

\* pi, err := ECVRF_prove(pk, sk, m); the verifier is handed vpi and vm,
\* which are pi and m until somebody alters them
VrfProve(m, rand) ==
    /\ vrf.phase = "keyed"
    /\ LET res == ECVRF_prove(vrf.pk, vrf.sk, m, rand)
       IN vrf' = [vrf EXCEPT !.phase = IF res.panic THEN "panicked" ELSE "proved",
                             !.m = m, !.pi = res.pi, !.vm = m, !.vpi = res.pi]
    /\ UNCHANGED <<clusterVars, st, pe, ks>>

\* ok, err := ECVRF_verify(pk, pi, m)
VrfVerify ==
    /\ vrf.phase = "proved"
    /\ LET res == ECVRF_verify(vrf.pk, vrf.vpi, vrf.vm)
       IN vrf' = [vrf EXCEPT !.phase = IF res.panic THEN "panicked" ELSE "verified",
                             !.ok = res.ok, !.err = res.err]
    /\ UNCHANGED <<clusterVars, st, pe, ks>>

\* a second ECVRF_prove(pk, sk, m) of the same key and message, with the
\* ephemeral key its own GenerateKey draws
VrfProveAgain(rand) ==
    /\ vrf.phase = "proved"
    /\ vrf.pi2 = <<>>
    /\ LET res == ECVRF_prove(vrf.pk, vrf.sk, vrf.m, rand)
       IN vrf' = [vrf EXCEPT !.phase = IF res.panic THEN "panicked" ELSE "again",
                             !.pi2 = res.pi]
    /\ UNCHANGED <<clusterVars, st, pe, ks>>

InitVRF ==
    /\ Opened({})
    /\ st = IdleStorage
    /\ pe = IdleEncoding
    /\ vrf = IdleVRF
    /\ ks = IdleKeyserver

NextVRF ==
    \/ \E seed \in Seeds : VrfGenerateKey(seed)
    \/ \E m \in Messages, rand \in Seeds : VrfProve(m, rand)
    \/ VrfVerify
    \/ \E rand \in Seeds : VrfProveAgain(rand)

SpecVRF == InitVRF /\ [][NextVRF]_vars

\* C10: VRF correctness. For every key pair of ed25519.GenerateKey and every
\* message m, ECVRF_verify(pk, ECVRF_prove(pk, sk, m), m) returns true and
\* no error.
C10_ProofVerifies ==
    (vrf.phase \in {"verified", "panicked"} /\ vrf.flip = "none") =>
        vrf.phase = "verified" /\ vrf.ok /\ vrf.err = Nil

\* a proof of a non-empty message was verified whose gamma has a negative x,
\* whose challenge is not zero and whose key is not the identity
C10_Witness ==
    /\ vrf.phase = "verified"
    /\ vrf.flip = "none"
    /\ vrf.m # <<>>
    /\ vrf.pi[1] = 3
    /\ vrf.pi[2 + N2] # 0
    /\ vrf.pk # FeToBytes(1)
    /\ ECVRF_proof2hash(vrf.pi) # FeToBytes(1)

(***************************************************************************)
(* A verifier that is handed a proof or a message with one bit flipped.    *)
(***************************************************************************)
\* 2 to the b, for the bits of a byte
Pow2(b) == IF b = 0 THEN 1 ELSE IF b = 1 THEN 2 ELSE IF b = 2 THEN 4
           ELSE IF b = 3 THEN 8 ELSE IF b = 4 THEN 16 ELSE IF b = 5 THEN 32
           ELSE IF b = 6 THEN 64 ELSE 128

\* s with the bit k flipped: bit k % 8 of the byte k / 8, counted from 0
FlipBit(s, k) ==
    [s EXCEPT ![k \div 8 + 1] =
        IF (@ \div Pow2(k % 8)) % 2 = 1 THEN @ - Pow2(k % 8) ELSE @ + Pow2(k % 8)]

\* the seeds of the ephemeral keys of the proofs that are altered
FlipRands == {<<0, 1>>}

\* pi[k / 8] ^= 1 << (k % 8) before the proof reaches the verifier
VrfFlipProof(k) ==
    /\ vrf.phase = "proved"
    /\ vrf.flip = "none"
    /\ k < 8 * Len(vrf.pi)
    /\ vrf' = [vrf EXCEPT !.flip = "pi", !.vpi = FlipBit(vrf.pi, k)]
    /\ UNCHANGED <<clusterVars, st, pe, ks>>

\* m[k / 8] ^= 1 << (k % 8) before the message reaches the verifier
VrfFlipMessage(k) ==
    /\ vrf.phase = "proved"
    /\ vrf.flip = "none"
    /\ k < 8 * Len(vrf.m)
    /\ vrf' = [vrf EXCEPT !.flip = "m", !.vm = FlipBit(vrf.m, k)]
    /\ UNCHANGED <<clusterVars, st, pe, ks>>

NextFlip ==
    \/ \E seed \in Seeds : VrfGenerateKey(seed)
    \/ \E m \in Messages, rand \in FlipRands : VrfProve(m, rand)
    \/ \E k \in 0..(8 * (1 + N2 + N + N2) - 1) : VrfFlipProof(k)
    \/ \E k \in 0..7 : VrfFlipMessage(k)
    \/ VrfVerify

SpecFlip == InitVRF /\ [][NextFlip]_vars

\* C11: VRF soundness (negative). For every proof pi = ECVRF_prove(pk, sk, m),
\* a verifier that is handed pi with any one of its bits flipped, or m with
\* any one of its bits flipped, returns false.
C11_FlipRejected ==
    (vrf.phase = "verified" /\ vrf.flip # "none") => ~vrf.ok

\* the bit of the proof that carries the sign of gamma's x a second time:
\* the top bit of the last byte of the encoded point, after the sign octet
SignBitOfGamma == 8 * (1 + N2) - 1

\* the verifier's answer does not depend on the second copy of the sign:
\* a proof altered in that bit alone is accepted as the proof itself is
SecondSignIgnored ==
    (vrf.phase = "verified" /\ vrf.flip = "pi"
       /\ vrf.vpi = FlipBit(vrf.pi, SignBitOfGamma)) => vrf.ok /\ vrf.err = Nil

\* C28: index uniqueness. For a fixed public key and message, every proof
\* ECVRF_verify accepts gives the same ECVRF_proof2hash: a proof that is
\* accepted in place of the prover's has the prover's index, and none
\* differs from it in the sign bit that the encoded point carries beside
\* the sign octet.
C28_IndexUnique ==
    (vrf.phase = "verified" /\ vrf.ok /\ vrf.vm = vrf.m) =>
        ECVRF_proof2hash(vrf.vpi) = ECVRF_proof2hash(vrf.pi)

(***************************************************************************)
(* A verifier that is handed a proof that is no proof: one with a bit      *)
(* flipped, or cut short, or with a byte after its end.                    *)
(***************************************************************************)
\* pi[:l] reaches the verifier
VrfTruncate(l) ==
    /\ vrf.phase = "proved"
    /\ vrf.flip = "none"
    /\ l < Len(vrf.pi)
    /\ vrf' = [vrf EXCEPT !.flip = "cut", !.vpi = SubSeq(vrf.pi, 1, l)]
    /\ UNCHANGED <<clusterVars, st, pe, ks>>

\* append(pi, b) reaches the verifier
VrfAppend(b) ==
    /\ vrf.phase = "proved"
    /\ vrf.flip = "none"
    /\ vrf' = [vrf EXCEPT !.flip = "long", !.vpi = Append(vrf.pi, b)]
    /\ UNCHANGED <<clusterVars, st, pe, ks>>

NextMalformed ==
    \/ \E seed \in Seeds : VrfGenerateKey(seed)
    \/ \E m \in Messages, rand \in FlipRands : VrfProve(m, rand)
    \/ \E k \in 0..(8 * (1 + N2) - 1) : VrfFlipProof(k)
    \/ \E l \in 0..(N2 + N + N2) : VrfTruncate(l)
    \/ \E b \in {0, 255} : VrfAppend(b)
    \/ VrfVerify

SpecMalformed == InitVRF /\ [][NextMalformed]_vars

\* the length of a proof: the sign octet, gamma, c and s
ProofLen == 1 + N2 + N + N2

\* a byte string that is no proof: not of the length of a proof, or its
\* sign octet is not 2 or 3, or the point it encodes is not valid
Malformed(pi) ==
    \/ Len(pi) # ProofLen
    \/ pi[1] \notin {2, 3}
    \/ OS2ECP(SubSeq(pi, 2, 1 + N2), pi[1] - 2) = NilPoint

\* C29: malformed proofs are rejected as values. For every byte string the
\* verifier is handed that is no proof (of another length, the empty one
\* among them, or with a sign octet other than 2 and 3, or with an invalid
\* point), ECVRF_verify returns false and the decode error: it does not
\* abort.
C29_MalformedRejected ==
    (vrf.phase \in {"verified", "panicked"} /\ vrf.flip # "none"
       /\ Malformed(vrf.vpi)) =>
        /\ vrf.phase = "verified"
        /\ ~vrf.ok
        /\ vrf.err = ErrDecodeError

\* C12: VRF determinism of the index. For a fixed key pair and message,
\* ECVRF_proof2hash of the proof is the same bytes on every invocation of
\* ECVRF_prove, whatever ephemeral key the invocation draws.
C12_IndexDeterministic ==
    vrf.phase = "again" =>
        ECVRF_proof2hash(vrf.pi2) = ECVRF_proof2hash(vrf.pi)

\* two proofs of one message under one key differ in c and in s, and the
\* index is not that of the identity
C12_Witness ==
    /\ vrf.phase = "again"
    /\ vrf.pi2[2 + N2] # vrf.pi[2 + N2]
    /\ SubSeq(vrf.pi2, 3 + N2, Len(vrf.pi2)) # SubSeq(vrf.pi, 3 + N2, Len(vrf.pi))
    /\ ECVRF_proof2hash(vrf.pi) # FeToBytes(1)

(***************************************************************************)
(* A Keyserver and the clients that call UpdateProfile.                    *)
(***************************************************************************)
\* the servers at the start: nothing stored, or an update stored before
Servers ==
    {[log |-> <<>>, state |-> {}]} \cup
    {[log |-> <<>>, state |-> {v}] :
        v \in {u \in NewPopulatedSignedEntryUpdate : u.Update = <<1>> /\ u.Profile = NilBytes}}

KsUpdateProfile(req) ==
    /\ ks.calls < MaxUpdates
    /\ LET r == UpdateProfile(ks.server, req)
       IN ks' = [ks EXCEPT !.calls = @ + 1, !.req = req, !.reply = r.reply,
                           !.err = r.err, !.server = r.server]
    /\ UNCHANGED <<clusterVars, st, pe, vrf>>

InitKs ==
    /\ Opened({})
    /\ st = IdleStorage
    /\ pe = IdleEncoding
    /\ vrf = IdleVRF
    /\ \E server \in Servers : ks = [IdleKeyserver EXCEPT !.server = server, !.was = server]

NextKs == \E req \in NewPopulatedSignedEntryUpdate : KsUpdateProfile(req)

SpecKs == InitKs /\ [][NextKs]_vars

\* C14: UpdateProfile is a stub. For every request and every server it
\* returns a not-implemented error and no LookupProof, proposes nothing to
\* the replication log and leaves the server as it was.
C14_UpdateProfileStub ==
    ks.calls > 0 =>
        /\ ks.reply = Nil
        /\ ks.err = "UpdateProfile not implemented"
        /\ ks.server.log = <<>>
        /\ ks.server = ks.was

\* UpdateProfile was called twice on a server that holds an update, the
\* last time with a signed update of a profile
C14_Witness ==
    /\ ks.calls >= 2
    /\ ks.was.state # {}
    /\ ks.req.Update # <<>>
    /\ ks.req.NewSig = SomeBytes(<<1>>)
    /\ ~ks.req.Profile.null
    /\ ks.err # Nil

====
